---- MODULE Spec2Model ----
(***************************************************************************)
(* Ledger-and-budget engine of the budget bot (src/main.py): the expense   *)
(* ledger, the base budgets, the daily overrides of the carryover policy,  *)
(* the pending-confirmation state and the text handler that drives them.   *)
(*                                                                         *)
(* Money is an exact decimal in the program (Decimal / NUMERIC); here it   *)
(* is an integer number of currency units, and all arithmetic is exact.    *)
(* A calendar date is an integer day number.  The clock counts half-days   *)
(* of UTC: the UTC date of instant n is n \div 2, and the local date that  *)
(* date.today() returns is shifted by the server's zone offset tz.         *)
(***************************************************************************)
EXTENDS Integers, Sequences, FiniteSets, TLC

\* ------------------------------------------------------------------ bounds
\* Last clock value (half-days of UTC); the clock starts at 2.
MaxNow == 5
\* Last clock value in the specification of the confirmation protocol.
MaxNowConfirm == 3
\* Last clock value in the specification of the frozen overrides.
MaxNowFreeze == 4
\* Last clock value in the specification of the confirmation answers.
MaxNowAnswer == 4
\* Last clock value in the specification of the action batches.
MaxNowBatch == 3
\* Last clock value in the specification of the interpreter calls.
MaxNowCall == 3
\* Last clock value in the specification of the receipts.
MaxNowPhoto == 4
\* Last clock value in the specification of the last expense.
MaxNowLast == 3
\* Last clock value in the specification of the budget rows.
MaxNowBudget == 3
\* Last clock value in the specification of the limit lookup.
MaxNowLookup == 4
\* Last clock value in the specification of the figures and warnings.
MaxNowLimit == 4
\* Last clock value in the specification of the handlers in flight.
MaxNowRace == 4
\* Last clock value in the specification of the pending confirmations.
MaxNowPending == 4
\* Rows the ledger may ever receive (the SERIAL id stops there).
MaxExpenses == 2
\* Rows convo_messages may ever receive in the specification of the
\* conversation memory.
MaxMessages == 15

\* ------------------------------------------------------- program constants
\* ids[:200] kept in the pending state.
IdsCap == 200
\* "last" looks back today() - timedelta(days=3650).
LastWindow == 3650
\* HISTORY_LIMIT, by default.
HISTORY_LIMIT == 12
\* MAX_SUMMARY_CHARS, by default.
MAX_SUMMARY_CHARS == 900

\* --------------------------------------------------------------- encodings
\* A JSON / SQL value that may be absent: null, a number, a calendar date,
\* or text that parses as neither ("bad").
Null == [k |-> "null", v |-> 0]
Num(n) == [k |-> "num", v |-> n]
Date(d) == [k |-> "date", v |-> d]
Bad == [k |-> "bad", v |-> 0]

\* An instant (TIMESTAMP): t orders half-days and noons, us the microseconds
\* within one half-day (the clock reading of a later insert is larger).
\* datetime(d.year, d.month, d.day, 12, 0, 0)
Noon(d) == [t |-> 4 * d + 1, us |-> 0]
\* datetime.utcnow() read at clock n by the insert that draws id rid
UtcInstant(n, rid) == [t |-> 2 * n, us |-> rid]
\* when.date()
DateOf(at) == at.t \div 4

Max(a, b) == IF a >= b THEN a ELSE b
Abs(a) == IF a < 0 THEN -a ELSE a
Take(s, n) == SubSeq(s, 1, IF Len(s) < n THEN Len(s) ELSE n)
Range(s) == {s[i] : i \in 1..Len(s)}

VARIABLES
    expenses,         \* table expenses
    budgets,          \* table budgets (unique per chat, user, category, currency)
    daily_overrides,  \* table daily_overrides (unique per key and day)
    user_states,      \* table user_states (one pending state per chat, user)
    convo_messages,   \* table convo_messages
    convo_memory,     \* table convo_memory: one summary per chat and user
    stamped,          \* whether the rows of convo_messages keep created_at
    in_flight,        \* text handlers that wait at an await, by slot
    next_id,          \* next value of expenses.id (SERIAL)
    now,              \* the clock, in half-days of UTC
    tz,               \* zone offset of the server, in half-days
    out               \* what the last handled event produced

vars == <<expenses, budgets, daily_overrides, user_states, convo_messages,
          convo_memory, stamped, in_flight, next_id, now, tz, out>>

\* The tables the executor reads and writes, as one value.
DB == [expenses |-> expenses, budgets |-> budgets,
       daily_overrides |-> daily_overrides, next_id |-> next_id]

\* ------------------------------------------------------------------- dates
\* date.today(): the local date
today == (now + tz) \div 2
\* datetime.utcnow().date()
utc_date == now \div 2

\* A month of the model has MonthLen days; day 1 starts a month.
MonthLen == 2
month_start(d) == d - ((d - 1) % MonthLen)

\* ------------------------------------------------------------ text values
\* str.lower().strip() on the texts the model sends: category, currency,
\* mode and action names.  "" is the absent (or empty) value, which the
\* code's "x or default" treats alike.
lower_strip(s) ==
    CASE s = "Coffee " -> "coffee"
      [] s = "filter " -> "filter"
      [] s = "last " -> "last"
      [] OTHER -> s
\* str.upper().strip()
upper_strip(s) ==
    CASE s = "uzs" -> "UZS"
      [] OTHER -> s
\* str.strip() alone
strip(s) ==
    CASE s = "filter " -> "filter"
      [] s = "last " -> "last"
      [] s = "Coffee " -> "Coffee"
      [] OTHER -> s

\* DEFAULT_CURRENCY
DEFAULT_CURRENCY == "UZS"

\* ------------------------------------------------------------- DB helpers
\* (mutant) WHERE tg_user_id=%s alone
Owns_UserOnly(r, chat_id, user_id) == r.tg_user_id = user_id

Owns(r, chat_id, user_id) == r.chat_id = chat_id /\ r.tg_user_id = user_id

RECURSIVE SumAmount(_)
SumAmount(rows) ==
    IF rows = {} THEN 0
    ELSE LET r == CHOOSE x \in rows : TRUE
         IN r.amount + SumAmount(rows \ {r})

\* The pending state of (chat, user): a set with the row's state, or {}.
get_state(states, chat_id, user_id) ==
    {r.state : r \in {x \in states : Owns(x, chat_id, user_id)}}

set_state(states, chat_id, user_id, state) ==
    {x \in states : ~Owns(x, chat_id, user_id)}
        \cup {[chat_id |-> chat_id, tg_user_id |-> user_id, state |-> state]}

\* (mutant) DELETE FROM user_states WHERE chat_id = ...: the whole chat's
\* states go
clear_state_WholeChat(states, chat_id, user_id) ==
    {x \in states : x.chat_id # chat_id}

\* (mutant) the state row stays
clear_state_Keep(states, chat_id, user_id) == states

clear_state(states, chat_id, user_id) ==
    {x \in states : ~Owns(x, chat_id, user_id)}

\* created_at DEFAULT NOW() of the next row of convo_messages.  Every
\* insert is its own transaction, the updates are handled one after the
\* other and no row is ever deleted, so the time of a row is later than
\* the time of every row before it: it is kept as the row's rank in the
\* table.  Where the order of the rows is not looked at, a row is kept up
\* to its content and time, and the table is the set of (chat, user, role)
\* that have rows.
created_at(messages) == IF stamped THEN Cardinality(messages) + 1 ELSE 0

\* INSERT INTO convo_messages, up to the content.
add_history(messages, chat_id, user_id, role) ==
    messages \cup {[chat_id |-> chat_id, tg_user_id |-> user_id, role |-> role,
                    created_at |-> created_at(messages)]}

\* The user's message and the reply to it.
add_exchange(messages, chat_id, user_id) ==
    add_history(add_history(messages, chat_id, user_id, "user"), chat_id, user_id, "assistant")

\* SELECT summary FROM convo_memory: the summary's length, 0 ("") when
\* there is no row.
get_summary(memory, chat_id, user_id) ==
    LET rows == {m \in memory : Owns(m, chat_id, user_id)}
    IN IF rows = {} THEN 0 ELSE (CHOOSE m \in rows : TRUE).summary

\* (mutant) the summary is stored whole
set_summary_Whole(memory, chat_id, user_id, summary) ==
    {m \in memory : ~Owns(m, chat_id, user_id)}
      \cup {[chat_id |-> chat_id, tg_user_id |-> user_id, summary |-> summary]}

\* INSERT INTO convo_memory ... ON CONFLICT DO UPDATE.  A summary is kept
\* up to its text, as its length: summary[:MAX_SUMMARY_CHARS].
set_summary(memory, chat_id, user_id, summary) ==
    {m \in memory : ~Owns(m, chat_id, user_id)}
      \cup {[chat_id |-> chat_id, tg_user_id |-> user_id,
              summary |-> IF summary < MAX_SUMMARY_CHARS THEN summary ELSE MAX_SUMMARY_CHARS]}

\* SELECT role, content ... ORDER BY created_at DESC LIMIT limit, then
\* reversed: the rows, oldest first.
RECURSIVE NewestFirst(_)
NewestFirst(rows) ==
    IF rows = {} THEN <<>>
    ELSE LET m == CHOOSE x \in rows : \A y \in rows : y.created_at <= x.created_at
         IN <<m>> \o NewestFirst(rows \ {m})

Reversed(s) == [i \in 1..Len(s) |-> s[Len(s) + 1 - i]]

get_history(messages, chat_id, user_id, limit) ==
    Reversed(Take(NewestFirst({m \in messages : Owns(m, chat_id, user_id)}), limit))

\* (mutant) DO UPDATE SET x = COALESCE(EXCLUDED.x, budgets.x): a limit that
\* is not given keeps its old value
set_budget_base_KeepOld(db, chat_id, user_id, main_category, currency, daily_limit, monthly_limit) ==
    LET old == {b \in db.budgets : Owns(b, chat_id, user_id)
                                    /\ b.main_category = main_category
                                    /\ b.currency = currency}
        dl == IF daily_limit = Null /\ old # {}
              THEN (CHOOSE b \in old : TRUE).daily_limit ELSE daily_limit
        ml == IF monthly_limit = Null /\ old # {}
              THEN (CHOOSE b \in old : TRUE).monthly_limit ELSE monthly_limit
    IN [db EXCEPT !.budgets =
          (@ \ old) \cup {[chat_id |-> chat_id, tg_user_id |-> user_id,
                            main_category |-> main_category, currency |-> currency,
                            daily_limit |-> dl, monthly_limit |-> ml]}]

\* INSERT ... ON CONFLICT (chat, user, main_category, currency) DO UPDATE
set_budget_base(db, chat_id, user_id, main_category, currency, daily_limit, monthly_limit) ==
    [db EXCEPT !.budgets =
        {b \in db.budgets : ~(Owns(b, chat_id, user_id)
                              /\ b.main_category = main_category
                              /\ b.currency = currency)}
        \cup {[chat_id |-> chat_id, tg_user_id |-> user_id,
               main_category |-> main_category, currency |-> currency,
               daily_limit |-> daily_limit, monthly_limit |-> monthly_limit]}]

\* (mutant) AND main_category=%s forgotten: a row of the user's in the
\* currency, whatever its category
get_budget_base_AnyCategory(db, chat_id, user_id, main_category, currency) ==
    LET rows == {b \in db.budgets : Owns(b, chat_id, user_id) /\ b.currency = currency}
    IN IF rows = {} THEN {} ELSE {CHOOSE b \in rows : TRUE}

\* The row of the key, as a set of at most one row.
get_budget_base(db, chat_id, user_id, main_category, currency) ==
    {b \in db.budgets : Owns(b, chat_id, user_id)
                        /\ b.main_category = main_category
                        /\ b.currency = currency}

\* INSERT ... ON CONFLICT (chat, user, main_category, currency, day) DO UPDATE
upsert_override(db, chat_id, user_id, main_category, currency, day, effective_limit, reason) ==
    [db EXCEPT !.daily_overrides =
        {o \in db.daily_overrides : ~(Owns(o, chat_id, user_id)
                                      /\ o.main_category = main_category
                                      /\ o.currency = currency
                                      /\ o.day = day)}
        \cup {[chat_id |-> chat_id, tg_user_id |-> user_id,
               main_category |-> main_category, currency |-> currency,
               day |-> day, effective_limit |-> effective_limit,
               reason |-> reason]}]

\* (mutant) AND day=%s forgotten: an override of the key, whatever its day
get_override_AnyDay(db, chat_id, user_id, main_category, currency, day) ==
    LET rows == {x \in db.daily_overrides : Owns(x, chat_id, user_id)
                                            /\ x.main_category = main_category
                                            /\ x.currency = currency}
    IN IF rows = {} THEN {}
       ELSE LET o == CHOOSE x \in rows : \A y \in rows : x.day <= y.day
            IN {[limit |-> o.effective_limit, reason |-> o.reason, source |-> "override"]}

\* The override of the key and day as {limit, reason, source}, or {}.
get_override(db, chat_id, user_id, main_category, currency, day) ==
    {[limit |-> o.effective_limit, reason |-> o.reason, source |-> "override"] :
        o \in {x \in db.daily_overrides : Owns(x, chat_id, user_id)
                                          /\ x.main_category = main_category
                                          /\ x.currency = currency
                                          /\ x.day = day}}

\* COALESCE(SUM(amount), 0) over the user's rows dated in [start, end];
\* the category and currency filter applies only when both are non-empty.
sum_expenses(db, chat_id, user_id, start, end, main_category, currency) ==
    IF main_category # "" /\ currency # ""
    THEN SumAmount({e \in db.expenses : Owns(e, chat_id, user_id)
                        /\ start <= e.spent_date /\ e.spent_date <= end
                        /\ e.main_category = main_category
                        /\ e.currency = currency})
    ELSE SumAmount({e \in db.expenses : Owns(e, chat_id, user_id)
                        /\ start <= e.spent_date /\ e.spent_date <= end})

\* INSERT INTO expenses ... RETURNING id.  when is {} (None) or {instant};
\* the free-text note takes no part in any computation and is left out.
add_expense(db, chat_id, user_id, amount, currency, main_category, sub_category, when) ==
    LET at == IF when = {} THEN UtcInstant(now, db.next_id)
              ELSE CHOOSE w \in when : TRUE
        rid == db.next_id
    IN [db |-> [db EXCEPT
                  !.expenses = @ \cup {[id |-> rid, chat_id |-> chat_id,
                        tg_user_id |-> user_id, amount |-> amount,
                        currency |-> currency, main_category |-> main_category,
                        sub_category |-> sub_category, spent_at |-> at,
                        spent_date |-> DateOf(at)]},
                  !.next_id = @ + 1],
        rid |-> rid]

\* (mutant) DELETE FROM expenses WHERE chat_id = ... AND tg_user_id = ...:
\* every row of the user goes
delete_expenses_by_ids_AllOwn(db, chat_id, user_id, ids) ==
    LET gone == {e \in db.expenses : Owns(e, chat_id, user_id) /\ ids # <<>>}
    IN [db |-> [db EXCEPT !.expenses = @ \ gone], deleted |-> Cardinality(gone)]

\* (mutant) DELETE ... WHERE id = ANY(ids), whoever owns the row
delete_expenses_by_ids_AnyTenant(db, chat_id, user_id, ids) ==
    LET gone == {e \in db.expenses : e.id \in Range(ids)}
    IN [db |-> [db EXCEPT !.expenses = @ \ gone], deleted |-> Cardinality(gone)]

\* (mutant) the count returned is the number of ids asked for
delete_expenses_by_ids_CountIds(db, chat_id, user_id, ids) ==
    LET gone == {e \in db.expenses : Owns(e, chat_id, user_id) /\ e.id \in Range(ids)}
    IN [db |-> [db EXCEPT !.expenses = @ \ gone], deleted |-> Len(ids)]

\* DELETE ... WHERE chat_id, tg_user_id AND id = ANY(ids); returns rowcount.
delete_expenses_by_ids(db, chat_id, user_id, ids) ==
    LET gone == {e \in db.expenses : Owns(e, chat_id, user_id) /\ e.id \in Range(ids)}
    IN [db |-> [db EXCEPT !.expenses = @ \ gone], deleted |-> Cardinality(gone)]

\* SELECT main_category, sub_category, currency, SUM(amount) ... GROUP BY:
\* the groups of the user's rows dated in [start, end].
BreakdownGroups(db, chat_id, user_id, start, end) ==
    LET scoped == {e \in db.expenses : Owns(e, chat_id, user_id)
                        /\ start <= e.spent_date /\ e.spent_date <= end}
    IN {[main_category |-> e.main_category, sub_category |-> e.sub_category,
         currency |-> e.currency,
         spent |-> SumAmount({f \in scoped : /\ f.main_category = e.main_category
                                              /\ f.sub_category = e.sub_category
                                              /\ f.currency = e.currency})] : e \in scoped}

\* ORDER BY spent DESC: the lists the store may return, one per order of
\* the groups of equal spent.
breakdown_main_sub(db, chat_id, user_id, start, end) ==
    LET groups == BreakdownGroups(db, chat_id, user_id, start, end)
        n == Cardinality(groups)
    IN {q \in [1..n -> groups] :
          /\ \A i, j \in 1..n : i # j => q[i] # q[j]
          /\ \A i \in 1..n : \A j \in (i + 1)..n : q[i].spent >= q[j].spent}

\* ORDER BY spent_at DESC: r comes before q.  Rows with the same instant
\* come in an order the store picks; tie is that pick.
MoreRecent(r, q, tie) ==
    \/ r.spent_at.t > q.spent_at.t
    \/ r.spent_at.t = q.spent_at.t /\ r.spent_at.us > q.spent_at.us
    \/ r.spent_at = q.spent_at /\ (IF tie = "asc" THEN r.id < q.id ELSE r.id > q.id)

RECURSIVE OrderBySpentAtDesc(_, _)
OrderBySpentAtDesc(rows, tie) ==
    IF rows = {} THEN <<>>
    ELSE LET first == CHOOSE r \in rows : \A q \in rows \ {r} : MoreRecent(r, q, tie)
         IN <<first>> \o OrderBySpentAtDesc(rows \ {first}, tie)

\* The user's rows dated in [start, end], most recent first.  The category
\* filters apply as the three SQL branches do: both, main alone, or none.
find_expenses(db, chat_id, user_id, start, end, main_category, sub_category, tie) ==
    LET scoped == {e \in db.expenses : Owns(e, chat_id, user_id)
                        /\ start <= e.spent_date /\ e.spent_date <= end}
        rows == IF main_category # "" /\ sub_category # ""
                THEN {e \in scoped : e.main_category = main_category
                                     /\ e.sub_category = sub_category}
                ELSE IF main_category # ""
                THEN {e \in scoped : e.main_category = main_category}
                ELSE scoped
    IN OrderBySpentAtDesc(rows, tie)

\* --------------------------------------------------------------- carryover
NoReason == [kind |-> "null", delta |-> 0, currency |-> ""]
BaseReason == [kind |-> "base", delta |-> 0, currency |-> ""]

\* The override of the day if there is one, else the base daily limit if
\* one is set, else {} (None).
get_effective_daily_limit(db, chat_id, user_id, main_category, currency, day) ==
    LET ovr == get_override(db, chat_id, user_id, main_category, currency, day)
        base == get_budget_base(db, chat_id, user_id, main_category, currency)
    IN IF ovr # {} THEN ovr
       ELSE IF base # {} /\ (CHOOSE b \in base : TRUE).daily_limit.k = "num"
       THEN {[limit |-> (CHOOSE b \in base : TRUE).daily_limit.v,
              reason |-> BaseReason, source |-> "base"]}
       ELSE {}

\* The reason text of a rollover: which of the three sentences, with the
\* amount and the currency it prints.
RolloverReason(delta, currency) ==
    IF delta = 0 THEN [kind |-> "none", delta |-> 0, currency |-> ""]
    ELSE IF delta > 0 THEN [kind |-> "surplus", delta |-> delta, currency |-> currency]
    ELSE [kind |-> "deficit", delta |-> Abs(delta), currency |-> currency]

\* (mutant) the floor at 0 forgotten
TodayLimit_NoFloor(base_daily, delta) == base_daily + delta

\* today_limit = base_daily + delta, floored at 0
TodayLimit(base_daily, delta) == Max(0, base_daily + delta)

\* (mutant) the early return on an existing override forgotten
ensure_daily_rollover_for_today_NoGuard(db, chat_id, user_id, main_category, currency, day) ==
    LET base == get_budget_base(db, chat_id, user_id, main_category, currency)
    IN IF base = {} \/ (CHOOSE b \in base : TRUE).daily_limit.k # "num"
       THEN [db |-> db, roll |-> {}]
       ELSE
         LET base_daily == (CHOOSE b \in base : TRUE).daily_limit.v
             eff_y == get_effective_daily_limit(db, chat_id, user_id, main_category, currency, day - 1)
             yesterday_limit == IF eff_y # {} THEN (CHOOSE e \in eff_y : TRUE).limit ELSE base_daily
             yesterday_spent == sum_expenses(db, chat_id, user_id, day - 1, day - 1, main_category, currency)
             delta == yesterday_limit - yesterday_spent
         IN [db |-> upsert_override(db, chat_id, user_id, main_category, currency, day,
                                    TodayLimit(base_daily, delta), RolloverReason(delta, currency)),
             roll |-> {[yesterday_limit |-> yesterday_limit,
                        yesterday_spent |-> yesterday_spent,
                        delta |-> delta,
                        today_limit |-> TodayLimit(base_daily, delta),
                        reason |-> RolloverReason(delta, currency)]}]

\* (mutant) no override is written when the limit computed equals the base
ensure_daily_rollover_for_today_SkipEqual(db, chat_id, user_id, main_category, currency, day) ==
    LET r == ensure_daily_rollover_for_today_NoGuard(db, chat_id, user_id, main_category, currency, day)
        base == get_budget_base(db, chat_id, user_id, main_category, currency)
    IN IF base = {} \/ (CHOOSE b \in base : TRUE).daily_limit.k # "num"
       THEN [db |-> db, roll |-> {}]
       ELSE IF get_override(db, chat_id, user_id, main_category, currency, day) # {}
       THEN [db |-> db, roll |-> {}]
       ELSE IF \E x \in r.roll : x.today_limit = (CHOOSE b \in base : TRUE).daily_limit.v
       THEN [db |-> db, roll |-> r.roll]
       ELSE r

\* Creates the override of day unless the key has no base daily limit or
\* the day already has one.  Returns the tables and the rollover report
\* ({} for None).
ensure_daily_rollover_for_today(db, chat_id, user_id, main_category, currency, day) ==
    LET base == get_budget_base(db, chat_id, user_id, main_category, currency)
    IN IF base = {} \/ (CHOOSE b \in base : TRUE).daily_limit.k # "num"
       THEN [db |-> db, roll |-> {}]
       ELSE IF get_override(db, chat_id, user_id, main_category, currency, day) # {}
       THEN [db |-> db, roll |-> {}]
       ELSE
         LET base_daily == (CHOOSE b \in base : TRUE).daily_limit.v
             yesterday == day - 1
             eff_y == get_effective_daily_limit(db, chat_id, user_id, main_category, currency, yesterday)
             yesterday_limit == IF eff_y # {} THEN (CHOOSE e \in eff_y : TRUE).limit ELSE base_daily
             yesterday_spent == sum_expenses(db, chat_id, user_id, yesterday, yesterday, main_category, currency)
             delta == yesterday_limit - yesterday_spent
             today_limit == TodayLimit(base_daily, delta)
             reason == RolloverReason(delta, currency)
         IN [db |-> upsert_override(db, chat_id, user_id, main_category, currency, day, today_limit, reason),
             roll |-> {[yesterday_limit |-> yesterday_limit,
                        yesterday_spent |-> yesterday_spent,
                        delta |-> delta,
                        today_limit |-> today_limit,
                        reason |-> reason]}]

\* (left / limit) < Decimal("0.10") for limit > 0, in exact arithmetic
LowLeft(limit, left) == limit > 0 /\ 10 * left < limit

\* The remaining-budget figures of a key on a day.
calc_left_and_warn(db, chat_id, user_id, main_category, currency, day) ==
    LET eff == get_effective_daily_limit(db, chat_id, user_id, main_category, currency, day)
        d_limit == IF eff # {} THEN Num((CHOOSE e \in eff : TRUE).limit) ELSE Null
        d_reason == IF eff # {} THEN (CHOOSE e \in eff : TRUE).reason ELSE NoReason
        d_spent == sum_expenses(db, chat_id, user_id, day, day, main_category, currency)
        d_left == IF d_limit.k = "num" THEN Num(d_limit.v - d_spent) ELSE Null
        d_warn == d_limit.k = "num" /\ LowLeft(d_limit.v, d_left.v)
        base == get_budget_base(db, chat_id, user_id, main_category, currency)
        m_limit == IF base # {} /\ (CHOOSE b \in base : TRUE).monthly_limit.k = "num"
                   THEN (CHOOSE b \in base : TRUE).monthly_limit ELSE Null
        ms == month_start(day)
        m_spent == sum_expenses(db, chat_id, user_id, ms, day, main_category, currency)
        m_left == IF m_limit.k = "num" THEN Num(m_limit.v - m_spent) ELSE Null
        m_warn == m_limit.k = "num" /\ LowLeft(m_limit.v, m_left.v)
    IN [daily |-> [limit |-> d_limit, spent |-> d_spent, left |-> d_left,
                   warn |-> d_warn, reason |-> d_reason],
        monthly |-> [limit |-> m_limit, spent |-> m_spent, left |-> m_left,
                     warn |-> m_warn]]

\* ---------------------------------------------------------------- executor
\* One action of a plan as the interpreter returns it; absent fields are
\* "" (texts) or Null.
BlankAction ==
    [action |-> "", amount |-> Null, currency |-> "", main_category |-> "",
     sub_category |-> "", spent_date |-> Null, daily_limit |-> Null,
     monthly_limit |-> Null, mode |-> "", id |-> Null,
     start_date |-> Null, end_date |-> Null]

\* One entry of data["results"].
BlankResult ==
    [action |-> "", error |-> "", id |-> 0, amount |-> 0, currency |-> "",
     main_category |-> "", sub_category |-> "", day |-> 0, rollover |-> {},
     budget_info |-> {}, daily_limit |-> Null, monthly_limit |-> Null,
     mode |-> "", deleted |-> 0, ids |-> <<>>, matched |-> 0, total |-> 0]

\* The executor between two actions: the tables, the results so far, and
\* whether an action raised (which ends execute_plan and the handler).
Raise(st) == [st EXCEPT !.raised = TRUE]
Append1(st, db, res) == [st EXCEPT !.db = db, !.results = Append(@, res)]

\* (mutant) set_budget leaves the rollover to the next expense
ExecSetBudget_NoRollover(st, chat_id, user_id, a) ==
    LET main_category == lower_strip(IF a.main_category # "" THEN a.main_category ELSE "other")
        currency == upper_strip(IF a.currency # "" THEN a.currency ELSE DEFAULT_CURRENCY)
    IN IF a.daily_limit.k = "bad" \/ a.monthly_limit.k = "bad" THEN Raise(st)
       ELSE Append1(st, set_budget_base(st.db, chat_id, user_id, main_category, currency,
                                        a.daily_limit, a.monthly_limit),
                    [BlankResult EXCEPT
                       !.action = "set_budget", !.main_category = main_category,
                       !.currency = currency, !.daily_limit = a.daily_limit,
                       !.monthly_limit = a.monthly_limit])

\* (mutant) set_budget drops the overrides of the key before the rollover
ExecSetBudget_Rewrite(st, chat_id, user_id, a) ==
    LET main_category == lower_strip(IF a.main_category # "" THEN a.main_category ELSE "other")
        currency == upper_strip(IF a.currency # "" THEN a.currency ELSE DEFAULT_CURRENCY)
    IN IF a.daily_limit.k = "bad" \/ a.monthly_limit.k = "bad" THEN Raise(st)
       ELSE
         LET db1 == set_budget_base(st.db, chat_id, user_id, main_category, currency,
                                    a.daily_limit, a.monthly_limit)
             db2 == [db1 EXCEPT !.daily_overrides =
                        {o \in @ : ~(Owns(o, chat_id, user_id)
                                     /\ o.main_category = main_category
                                     /\ o.currency = currency)}]
             db3 == IF a.daily_limit.k = "num"
                    THEN ensure_daily_rollover_for_today(db2, chat_id, user_id, main_category, currency, today).db
                    ELSE db2
         IN Append1(st, db3, [BlankResult EXCEPT
                !.action = "set_budget", !.main_category = main_category,
                !.currency = currency, !.daily_limit = a.daily_limit,
                !.monthly_limit = a.monthly_limit])

ExecSetBudget(st, chat_id, user_id, a) ==
    LET main_category == lower_strip(IF a.main_category # "" THEN a.main_category ELSE "other")
        currency == upper_strip(IF a.currency # "" THEN a.currency ELSE DEFAULT_CURRENCY)
        dl == a.daily_limit
        ml == a.monthly_limit
    IN IF dl.k = "bad" \/ ml.k = "bad" THEN Raise(st)
       ELSE
         LET db1 == set_budget_base(st.db, chat_id, user_id, main_category, currency, dl, ml)
             db2 == IF dl.k = "num"
                    THEN ensure_daily_rollover_for_today(db1, chat_id, user_id, main_category, currency, today).db
                    ELSE db1
         IN Append1(st, db2, [BlankResult EXCEPT
                !.action = "set_budget", !.main_category = main_category,
                !.currency = currency, !.daily_limit = dl, !.monthly_limit = ml])

\* The day the executor takes as the expense's day: the given date, else
\* today().
TargetDay(a) == IF a.spent_date.k = "date" THEN a.spent_date.v ELSE today

ExecAddExpense(st, chat_id, user_id, a) ==
    IF a.amount.k # "num" \/ a.spent_date.k = "bad" THEN Raise(st)
    ELSE
      LET amount == a.amount.v
          currency == upper_strip(IF a.currency # "" THEN a.currency ELSE DEFAULT_CURRENCY)
          main_category == lower_strip(IF a.main_category # "" THEN a.main_category ELSE "other")
          sub_category == lower_strip(IF a.sub_category # "" THEN a.sub_category ELSE main_category)
          when == IF a.spent_date.k = "date" THEN {Noon(a.spent_date.v)} ELSE {}
          d == TargetDay(a)
          r1 == ensure_daily_rollover_for_today(st.db, chat_id, user_id, main_category, currency, d)
          r2 == add_expense(r1.db, chat_id, user_id, amount, currency, main_category, sub_category, when)
          budget_info == calc_left_and_warn(r2.db, chat_id, user_id, main_category, currency, d)
      IN Append1(st, r2.db, [BlankResult EXCEPT
             !.action = "add_expense", !.id = r2.rid, !.amount = amount,
             !.currency = currency, !.main_category = main_category,
             !.sub_category = sub_category, !.day = d, !.rollover = r1.roll,
             !.budget_info = {budget_info}])

\* get_history, get_categories, get_stats, suggest_savings: read-only
ExecQuery(st, chat_id, user_id, a, act) ==
    IF a.start_date.k # "date" \/ a.end_date.k # "date" THEN Raise(st)
    ELSE Append1(st, st.db, [BlankResult EXCEPT
             !.action = act,
             !.total = IF act = "get_categories" THEN 0
                       ELSE sum_expenses(st.db, chat_id, user_id, a.start_date.v, a.end_date.v, "", "")])

ExecDeleteExpense(st, chat_id, user_id, a, tie) ==
    LET mode == strip(IF a.mode # "" THEN a.mode ELSE "last")
    IN CASE mode = "by_id" ->
              IF a.id.k # "num" THEN Raise(st)
              ELSE LET r == delete_expenses_by_ids(st.db, chat_id, user_id, <<a.id.v>>)
                   IN Append1(st, r.db, [BlankResult EXCEPT
                          !.action = "delete_expense", !.mode = mode,
                          !.deleted = r.deleted, !.ids = <<a.id.v>>])
         [] mode = "last" ->
              LET rows == find_expenses(st.db, chat_id, user_id, today - LastWindow, today, "", "", tie)
              IN IF rows # <<>>
                 THEN LET r == delete_expenses_by_ids(st.db, chat_id, user_id, <<rows[1].id>>)
                      IN Append1(st, r.db, [BlankResult EXCEPT
                             !.action = "delete_expense", !.mode = mode,
                             !.deleted = r.deleted, !.ids = <<rows[1].id>>])
                 ELSE Append1(st, st.db, [BlankResult EXCEPT
                             !.action = "delete_expense", !.mode = mode])
         [] mode = "filter" ->
              IF a.start_date.k # "date" \/ a.end_date.k # "date" THEN Raise(st)
              ELSE
                LET mc == lower_strip(a.main_category)
                    sc == lower_strip(a.sub_category)
                    rows == find_expenses(st.db, chat_id, user_id, a.start_date.v, a.end_date.v, mc, sc, tie)
                    ids == [i \in 1..Len(rows) |-> rows[i].id]
                    r == delete_expenses_by_ids(st.db, chat_id, user_id, ids)
                IN Append1(st, r.db, [BlankResult EXCEPT
                       !.action = "delete_expense", !.mode = mode,
                       !.deleted = r.deleted, !.ids = Take(ids, IdsCap),
                       !.matched = Len(ids)])
         [] OTHER ->
              Append1(st, st.db, [BlankResult EXCEPT
                     !.action = "delete_expense", !.error = "unknown_mode"])

\* (mutant) an unknown action name ends the batch
ExecAction_UnknownAborts(st, chat_id, user_id, a, tie) ==
    LET act == strip(a.action)
    IN CASE act = "set_budget" -> ExecSetBudget(st, chat_id, user_id, a)
         [] act = "add_expense" -> ExecAddExpense(st, chat_id, user_id, a)
         [] act \in {"get_history", "get_categories", "get_stats", "suggest_savings"} ->
              ExecQuery(st, chat_id, user_id, a, act)
         [] act = "delete_expense" -> ExecDeleteExpense(st, chat_id, user_id, a, tie)
         [] OTHER -> Raise(st)

\* The body of the loop "for a in actions".
ExecAction(st, chat_id, user_id, a, tie) ==
    LET act == strip(a.action)
    IN CASE act = "set_budget" -> ExecSetBudget(st, chat_id, user_id, a)
         [] act = "add_expense" -> ExecAddExpense(st, chat_id, user_id, a)
         [] act \in {"get_history", "get_categories", "get_stats", "suggest_savings"} ->
              ExecQuery(st, chat_id, user_id, a, act)
         [] act = "delete_expense" -> ExecDeleteExpense(st, chat_id, user_id, a, tie)
         [] OTHER -> Append1(st, st.db, [BlankResult EXCEPT
                         !.action = act, !.error = "unknown_action"])

RECURSIVE RunActions(_, _, _, _, _)
RunActions(st, chat_id, user_id, actions, tie) ==
    IF actions = <<>> \/ st.raised THEN st
    ELSE RunActions(ExecAction(st, chat_id, user_id, Head(actions), tie),
                    chat_id, user_id, Tail(actions), tie)

\* Applies the plan's actions in order.  The result holds the tables after
\* the last action that ran, the results, and raised when an action raised
\* (the writes of the actions before it are committed and stay).
execute_plan(db, chat_id, user_id, plan, tie) ==
    RunActions([db |-> db, results |-> <<>>, raised |-> FALSE],
               chat_id, user_id, plan.actions, tie)

\* ---------------------------------------------------------------- handlers
\* raw.lower().strip() on the message texts the model sends.  "da" and
\* "net" stand for the two Russian words of the vocabulary.
text_low(raw) ==
    CASE raw = "Yes " -> "yes"
      [] raw = "DA." -> "da."
      [] raw = "No" -> "no"
      [] raw = " NET" -> "net"
      [] OTHER -> raw

YesWords == {"da", "da.", "yes", "y"}
NoWords == {"net", "net.", "no", "n"}

\* st and st.get("pending") and st.get("kind") == "confirm_delete"
Pending(states, chat_id, user_id) ==
    \E st \in get_state(states, chat_id, user_id) :
        st.pending /\ st.kind = "confirm_delete"

PendingState(ids) == [pending |-> TRUE, kind |-> "confirm_delete", ids |-> ids]

\* The last event handled: the message text (confirmation branch) or the
\* interpreter's plan that came with it, the branch taken, the number of
\* replies sent, the reply (a fixed text with its number, or the
\* interpreter's phrasing) and the executor's results.
NoPlan == [type |-> "", actions |-> <<>>]
Out(event, chat_id, user_id, text, plan, branch, replies, reply, n, results) ==
    [event |-> event, chat_id |-> chat_id, tg_user_id |-> user_id,
     text |-> text, plan |-> plan,
     branch |-> branch, replies |-> replies, reply |-> reply, n |-> n,
     results |-> results]

\* The pre-check's test of one action: the action name and the mode are
\* compared as given (no strip).
ModeOf(a) == IF a.mode # "" THEN a.mode ELSE "last"
NeedsConfirm(a) == a.action = "delete_expense" /\ ModeOf(a) \in {"filter", "last"}

\* Index of the first action at which the pre-check loop stops, 0 if none.
RECURSIVE FirstConfirm(_, _)
FirstConfirm(actions, i) ==
    IF i > Len(actions) THEN 0
    ELSE IF NeedsConfirm(actions[i]) THEN i
    ELSE FirstConfirm(actions, i + 1)

\* on_text, lines 1217-1227: a yes while a confirmation is pending
OnTextConfirmYes(chat_id, user_id, raw) ==
    /\ Pending(user_states, chat_id, user_id)
    /\ text_low(raw) \in YesWords
    /\ LET st == CHOOSE x \in get_state(user_states, chat_id, user_id) : TRUE
           r == delete_expenses_by_ids(DB, chat_id, user_id, st.ids)
       IN /\ expenses' = r.db.expenses
          /\ user_states' = clear_state(user_states, chat_id, user_id)
          /\ out' = Out("text", chat_id, user_id, raw, NoPlan, "confirm_yes", 1, "deleted", r.deleted, <<>>)
    /\ convo_messages' = add_history(convo_messages, chat_id, user_id, "assistant")
    /\ UNCHANGED convo_memory
    /\ UNCHANGED <<budgets, daily_overrides, next_id, now, tz, stamped, in_flight>>

\* (mutant) a no deletes the held rows as a yes does
OnTextConfirmNo_Deletes(chat_id, user_id, raw) ==
    /\ Pending(user_states, chat_id, user_id)
    /\ text_low(raw) \notin YesWords
    /\ text_low(raw) \in NoWords
    /\ LET st == CHOOSE x \in get_state(user_states, chat_id, user_id) : TRUE
       IN expenses' = delete_expenses_by_ids(DB, chat_id, user_id, st.ids).db.expenses
    /\ user_states' = clear_state(user_states, chat_id, user_id)
    /\ out' = Out("text", chat_id, user_id, raw, NoPlan, "confirm_no", 1, "cancelled", 0, <<>>)
    /\ convo_messages' = add_history(convo_messages, chat_id, user_id, "assistant")
    /\ UNCHANGED convo_memory
    /\ UNCHANGED <<budgets, daily_overrides, next_id, now, tz, stamped, in_flight>>

\* on_text, lines 1228-1233: a no while a confirmation is pending
OnTextConfirmNo(chat_id, user_id, raw) ==
    /\ Pending(user_states, chat_id, user_id)
    /\ text_low(raw) \notin YesWords
    /\ text_low(raw) \in NoWords
    /\ user_states' = clear_state(user_states, chat_id, user_id)
    /\ out' = Out("text", chat_id, user_id, raw, NoPlan, "confirm_no", 1, "cancelled", 0, <<>>)
    /\ convo_messages' = add_history(convo_messages, chat_id, user_id, "assistant")
    /\ UNCHANGED convo_memory
    /\ UNCHANGED <<expenses, budgets, daily_overrides, next_id, now, tz, stamped, in_flight>>

\* (mutant) the re-prompt drops the pending state
OnTextReprompt_Consumes(chat_id, user_id, raw) ==
    /\ Pending(user_states, chat_id, user_id)
    /\ text_low(raw) \notin YesWords \cup NoWords
    /\ user_states' = clear_state(user_states, chat_id, user_id)
    /\ out' = Out("text", chat_id, user_id, raw, NoPlan, "reprompt", 1, "answer_yes_or_no", 0, <<>>)
    /\ UNCHANGED <<convo_messages, convo_memory>>
    /\ UNCHANGED <<expenses, budgets, daily_overrides, next_id, now, tz, stamped, in_flight>>

\* on_text, lines 1234-1235: anything else while a confirmation is pending
OnTextReprompt(chat_id, user_id, raw) ==
    /\ Pending(user_states, chat_id, user_id)
    /\ text_low(raw) \notin YesWords \cup NoWords
    /\ out' = Out("text", chat_id, user_id, raw, NoPlan, "reprompt", 1, "answer_yes_or_no", 0, <<>>)
    /\ UNCHANGED <<convo_messages, convo_memory>>
    /\ UNCHANGED <<expenses, budgets, daily_overrides, user_states, next_id, now, tz, stamped, in_flight>>

\* on_text, lines 1237-1238: not addressed to the bot, nothing pending
OnTextIgnored(chat_id, user_id) ==
    /\ ~Pending(user_states, chat_id, user_id)
    /\ out' = Out("text", chat_id, user_id, "", NoPlan, "ignored", 0, "", 0, <<>>)
    /\ UNCHANGED <<convo_messages, convo_memory>>
    /\ UNCHANGED <<expenses, budgets, daily_overrides, user_states, next_id, now, tz, stamped, in_flight>>

\* on_text, lines 1248-1252: the interpreter asks back
OnTextClarify(chat_id, user_id, plan) ==
    /\ ~Pending(user_states, chat_id, user_id)
    /\ plan.type = "clarify"
    /\ out' = Out("text", chat_id, user_id, "", plan, "clarify", 1, "question", 0, <<>>)
    /\ convo_messages' = add_exchange(convo_messages, chat_id, user_id)
    /\ UNCHANGED convo_memory
    /\ UNCHANGED <<expenses, budgets, daily_overrides, user_states, next_id, now, tz, stamped, in_flight>>

\* on_text, lines 1254-1292: the pre-check stops at the first delete_expense
\* action whose mode is filter or last, and the plan is not executed.
OnTextPreCheck(chat_id, user_id, plan, tie) ==
    /\ ~Pending(user_states, chat_id, user_id)
    /\ plan.type # "clarify"
    /\ FirstConfirm(plan.actions, 1) # 0
    /\ LET a == plan.actions[FirstConfirm(plan.actions, 1)]
       IN IF ModeOf(a) = "filter"
          THEN IF a.start_date.k # "date" \/ a.end_date.k # "date"
               THEN \* parse_ymd raises: the handler ends without a reply
                    /\ out' = Out("text", chat_id, user_id, "", plan, "raised", 0, "", 0, <<>>)
                    /\ UNCHANGED user_states
               ELSE LET mc == lower_strip(a.main_category)
                        sc == lower_strip(a.sub_category)
                        rows == find_expenses(DB, chat_id, user_id, a.start_date.v, a.end_date.v, mc, sc, tie)
                        ids == [i \in 1..Len(rows) |-> rows[i].id]
                    IN IF Len(ids) = 0
                       THEN /\ out' = Out("text", chat_id, user_id, "", plan, "nothing_matched", 1, "nothing_matched", 0, <<>>)
                            /\ UNCHANGED user_states
                       ELSE /\ user_states' = set_state(user_states, chat_id, user_id, PendingState(Take(ids, IdsCap)))
                            /\ out' = Out("text", chat_id, user_id, "", plan, "ask_filter", 1, "found_delete_all", Len(ids), <<>>)
          ELSE LET rows == find_expenses(DB, chat_id, user_id, today - LastWindow, today, "", "", tie)
               IN IF rows = <<>>
                  THEN /\ out' = Out("text", chat_id, user_id, "", plan, "nothing_to_delete", 1, "nothing_to_delete", 0, <<>>)
                       /\ UNCHANGED user_states
                  ELSE /\ user_states' = set_state(user_states, chat_id, user_id, PendingState(<<rows[1].id>>))
                       /\ out' = Out("text", chat_id, user_id, "", plan, "ask_last", 1, "delete_last", rows[1].id, <<>>)
    /\ convo_messages' = IF out'.branch = "raised"
                         THEN add_history(convo_messages, chat_id, user_id, "user")
                         ELSE add_exchange(convo_messages, chat_id, user_id)
    /\ UNCHANGED convo_memory
    /\ UNCHANGED <<expenses, budgets, daily_overrides, next_id, now, tz, stamped, in_flight>>

\* Expense rows the plan may insert (the id sequence is bounded).
Inserts(actions) == Cardinality({i \in 1..Len(actions) : strip(actions[i].action) = "add_expense"})

\* on_text, lines 1294-1308: the plan is executed and the reply composed.
\* When an action raises, the handler ends there without a reply; what the
\* earlier actions wrote stays.  new_summary is the length of the summary
\* in the reply-phase answer, 0 when the answer has none or an empty one:
\* the summary read before the plan is then stored again.
OnTextAnswer(chat_id, user_id, plan, tie, new_summary) ==
    /\ ~Pending(user_states, chat_id, user_id)
    /\ plan.type # "clarify"
    /\ FirstConfirm(plan.actions, 1) = 0
    /\ next_id + Inserts(plan.actions) <= MaxExpenses + 1
    /\ LET r == execute_plan(DB, chat_id, user_id, plan, tie)
       IN /\ expenses' = r.db.expenses
          /\ budgets' = r.db.budgets
          /\ daily_overrides' = r.db.daily_overrides
          /\ next_id' = r.db.next_id
          /\ out' = IF r.raised
                    THEN Out("text", chat_id, user_id, "", plan, "raised", 0, "", 0, r.results)
                    ELSE Out("text", chat_id, user_id, "", plan, "executed", 1, "final", 0, r.results)
    /\ convo_messages' = IF out'.branch = "raised"
                         THEN add_history(convo_messages, chat_id, user_id, "user")
                         ELSE add_exchange(convo_messages, chat_id, user_id)
    /\ convo_memory' = IF out'.branch = "raised"
                       THEN convo_memory
                       ELSE set_summary(convo_memory, chat_id, user_id,
                                        IF new_summary # 0 THEN new_summary
                                        ELSE get_summary(convo_memory, chat_id, user_id))
    /\ UNCHANGED <<user_states, now, tz, stamped, in_flight>>

\* The same, when the reply-phase answer has no summary in it.
OnTextExecute(chat_id, user_id, plan, tie) ==
    OnTextAnswer(chat_id, user_id, plan, tie, 0)

\* What a call of the interpreter comes to: no API key, an HTTP status of
\* 400 or more, no output text, output text that is not JSON, no answer
\* within the request timeout, or a JSON value.
FailedCalls == {"no_key", "status", "empty", "not_json", "timeout"}
Answer(value) == [kind |-> "json", value |-> value]
Failure(kind) == [kind |-> kind, value |-> NoPlan]
ClarifyFallback == [type |-> "clarify", actions |-> <<>>]

\* (mutant) every failed call raises
openai_json_Raises(resp) ==
    IF resp.kind = "json" THEN [raised |-> FALSE, value |-> resp.value, question |-> ""]
    ELSE [raised |-> TRUE, value |-> NoPlan, question |-> ""]

\* openai_json: the value the caller gets, with the fallback question in
\* it, or raised when client.post runs into the timeout (httpx raises and
\* nothing catches it).
openai_json(resp) ==
    CASE resp.kind = "no_key" ->
           [raised |-> FALSE, value |-> ClarifyFallback, question |-> "set_the_key"]
      [] resp.kind = "status" ->
           [raised |-> FALSE, value |-> ClarifyFallback, question |-> "say_it_shorter"]
      [] resp.kind \in {"empty", "not_json"} ->
           [raised |-> FALSE, value |-> ClarifyFallback, question |-> "say_it_again"]
      [] resp.kind = "timeout" ->
           [raised |-> TRUE, value |-> NoPlan, question |-> ""]
      [] OTHER ->
           [raised |-> FALSE, value |-> resp.value, question |-> ""]

\* The branch name of a failed call: the phase and what the call came to.
CallBranch(phase, kind) ==
    IF phase = "plan"
    THEN CASE kind = "no_key" -> "plan_no_key" [] kind = "status" -> "plan_status"
           [] kind = "empty" -> "plan_empty" [] kind = "not_json" -> "plan_not_json"
           [] OTHER -> "plan_timeout"
    ELSE CASE kind = "status" -> "reply_status" [] kind = "empty" -> "reply_empty"
           [] kind = "not_json" -> "reply_not_json" [] OTHER -> "reply_timeout"

\* on_text, lines 1246-1252, when the plan-phase call fails: the fallback
\* question is sent, or the handler ends where the call raised.
OnTextPlanFails(chat_id, user_id, resp) ==
    /\ ~Pending(user_states, chat_id, user_id)
    /\ resp.kind \in FailedCalls
    /\ LET plan == openai_json(resp)
       IN IF plan.raised
          THEN /\ out' = Out("text", chat_id, user_id, "", NoPlan, CallBranch("plan", resp.kind),
                             0, "", 0, <<>>)
               /\ convo_messages' = add_history(convo_messages, chat_id, user_id, "user")
          ELSE /\ plan.value.type = "clarify"
               /\ out' = Out("text", chat_id, user_id, "", plan.value, CallBranch("plan", resp.kind),
                             1, plan.question, 0, <<>>)
               /\ convo_messages' = add_exchange(convo_messages, chat_id, user_id)
    /\ UNCHANGED convo_memory
    /\ UNCHANGED <<expenses, budgets, daily_overrides, user_states, next_id, now, tz, stamped, in_flight>>

\* on_text, lines 1294-1308, when the plan has run and the reply-phase call
\* fails: the fallback has no "reply", so the default reply is sent and
\* the summary kept; or the handler ends where the call raised, after the
\* plan's writes.
OnTextReplyFails(chat_id, user_id, plan, tie, resp) ==
    /\ ~Pending(user_states, chat_id, user_id)
    /\ plan.type # "clarify"
    /\ FirstConfirm(plan.actions, 1) = 0
    /\ next_id + Inserts(plan.actions) <= MaxExpenses + 1
    /\ resp.kind \in FailedCalls \ {"no_key"}
    /\ LET r == execute_plan(DB, chat_id, user_id, plan, tie)
           final == openai_json(resp)
       IN /\ ~r.raised
          /\ expenses' = r.db.expenses
          /\ budgets' = r.db.budgets
          /\ daily_overrides' = r.db.daily_overrides
          /\ next_id' = r.db.next_id
          /\ IF final.raised
             THEN /\ out' = Out("text", chat_id, user_id, "", plan, CallBranch("final", resp.kind),
                                0, "", 0, r.results)
                  /\ convo_messages' = add_history(convo_messages, chat_id, user_id, "user")
                  /\ UNCHANGED convo_memory
             ELSE /\ out' = Out("text", chat_id, user_id, "", plan, CallBranch("final", resp.kind),
                                1, "done", 0, r.results)
                  /\ convo_messages' = add_exchange(convo_messages, chat_id, user_id)
                  /\ convo_memory' = set_summary(convo_memory, chat_id, user_id,
                                                 get_summary(convo_memory, chat_id, user_id))
    /\ UNCHANGED <<user_states, now, tz, stamped, in_flight>>

\* (mutant) the receipt is recorded without the rollover before it
OnPhoto_NoRollover(chat_id, user_id, parsed) ==
    /\ IF parsed.type # "expense"
       THEN /\ out' = Out("photo", chat_id, user_id, "", NoPlan, "unrecognised", 1, "unrecognised", 0, <<>>)
            /\ UNCHANGED <<expenses, budgets, daily_overrides, next_id>>
       ELSE IF parsed.amount.k # "num"
       THEN /\ out' = Out("photo", chat_id, user_id, "", NoPlan, "unrecognised", 1, "bad_receipt", 0, <<>>)
            /\ UNCHANGED <<expenses, budgets, daily_overrides, next_id>>
       ELSE
         LET amount == parsed.amount.v
             currency == upper_strip(IF parsed.currency # "" THEN parsed.currency ELSE DEFAULT_CURRENCY)
             mc == lower_strip(IF parsed.main_category # "" THEN parsed.main_category ELSE "other")
             sc == lower_strip(IF parsed.sub_category # "" THEN parsed.sub_category ELSE mc)
             r1 == [db |-> DB, roll |-> {}]
             r2 == add_expense(r1.db, chat_id, user_id, amount, currency, mc, sc, {})
             info == calc_left_and_warn(r2.db, chat_id, user_id, mc, currency, today)
         IN /\ next_id <= MaxExpenses
            /\ expenses' = r2.db.expenses
            /\ budgets' = r2.db.budgets
            /\ daily_overrides' = r2.db.daily_overrides
            /\ next_id' = r2.db.next_id
            /\ out' = Out("photo", chat_id, user_id, "", NoPlan, "recorded", 1, "recorded", r2.rid,
                          <<[BlankResult EXCEPT
                               !.action = "add_expense", !.id = r2.rid, !.amount = amount,
                               !.currency = currency, !.main_category = mc,
                               !.sub_category = sc, !.day = today, !.rollover = r1.roll,
                               !.budget_info = {info}]>>)
    /\ convo_messages' = IF out'.branch = "recorded"
                         THEN add_exchange(convo_messages, chat_id, user_id)
                         ELSE convo_messages
    /\ UNCHANGED convo_memory
    /\ UNCHANGED <<user_states, now, tz, stamped, in_flight>>

\* on_photo, lines 1344-1380: a recognised receipt is recorded like an
\* add_expense without a date.  parsed is the recogniser's answer.
OnPhoto(chat_id, user_id, parsed) ==
    /\ IF parsed.type # "expense"
       THEN /\ out' = Out("photo", chat_id, user_id, "", NoPlan, "unrecognised", 1, "unrecognised", 0, <<>>)
            /\ UNCHANGED <<expenses, budgets, daily_overrides, next_id>>
       ELSE IF parsed.amount.k # "num"
       THEN /\ out' = Out("photo", chat_id, user_id, "", NoPlan, "unrecognised", 1, "bad_receipt", 0, <<>>)
            /\ UNCHANGED <<expenses, budgets, daily_overrides, next_id>>
       ELSE
         LET amount == parsed.amount.v
             currency == upper_strip(IF parsed.currency # "" THEN parsed.currency ELSE DEFAULT_CURRENCY)
             mc == lower_strip(IF parsed.main_category # "" THEN parsed.main_category ELSE "other")
             sc == lower_strip(IF parsed.sub_category # "" THEN parsed.sub_category ELSE mc)
             r1 == ensure_daily_rollover_for_today(DB, chat_id, user_id, mc, currency, today)
             r2 == add_expense(r1.db, chat_id, user_id, amount, currency, mc, sc, {})
             info == calc_left_and_warn(r2.db, chat_id, user_id, mc, currency, today)
         IN /\ next_id <= MaxExpenses
            /\ expenses' = r2.db.expenses
            /\ budgets' = r2.db.budgets
            /\ daily_overrides' = r2.db.daily_overrides
            /\ next_id' = r2.db.next_id
            /\ out' = Out("photo", chat_id, user_id, "", NoPlan, "recorded", 1, "recorded", r2.rid,
                          <<[BlankResult EXCEPT
                               !.action = "add_expense", !.id = r2.rid, !.amount = amount,
                               !.currency = currency, !.main_category = mc,
                               !.sub_category = sc, !.day = today, !.rollover = r1.roll,
                               !.budget_info = {info}]>>)
    /\ convo_messages' = IF out'.branch = "recorded"
                         THEN add_exchange(convo_messages, chat_id, user_id)
                         ELSE convo_messages
    /\ UNCHANGED convo_memory
    /\ UNCHANGED <<user_states, now, tz, stamped, in_flight>>

\* Text handlers that may be in flight at once.  A handler gives way to
\* the others only where it awaits (the interpreter's answers, the send
\* of the reply); the database calls between two awaits are synchronous
\* and run as one step.
Slots == {1, 2}
Idle == [stage |-> "idle", chat_id |-> 0, tg_user_id |-> 0, summary |-> 0]

\* on_text in stages, for handlers in flight at once.
\* Lines 1193-1246: nothing is pending, the message is addressed to the
\* bot; the user's turn is stored, the summary read, and the handler
\* awaits the plan.
OnTextReceived(slot, chat_id, user_id) ==
    /\ in_flight[slot].stage = "idle"
    /\ ~Pending(user_states, chat_id, user_id)
    /\ convo_messages' = add_history(convo_messages, chat_id, user_id, "user")
    /\ in_flight' = [in_flight EXCEPT ![slot] =
                       [stage |-> "plan", chat_id |-> chat_id, tg_user_id |-> user_id,
                        summary |-> get_summary(convo_memory, chat_id, user_id)]]
    /\ out' = Out("text", chat_id, user_id, "", NoPlan, "received", 0, "", 0, <<>>)
    /\ UNCHANGED <<expenses, budgets, daily_overrides, user_states, convo_memory,
                   next_id, now, tz, stamped>>

\* Lines 1246-1296: the plan has come, it is not a question and the
\* pre-check lets it through; it is executed and the handler awaits the
\* reply's phrasing, or ends where an action raised.
OnTextPlanRuns(slot, plan, tie) ==
    /\ in_flight[slot].stage = "plan"
    /\ plan.type # "clarify"
    /\ FirstConfirm(plan.actions, 1) = 0
    /\ next_id + Inserts(plan.actions) <= MaxExpenses + 1
    /\ LET chat_id == in_flight[slot].chat_id
           user_id == in_flight[slot].tg_user_id
           r == execute_plan(DB, chat_id, user_id, plan, tie)
       IN /\ expenses' = r.db.expenses
          /\ budgets' = r.db.budgets
          /\ daily_overrides' = r.db.daily_overrides
          /\ next_id' = r.db.next_id
          /\ out' = IF r.raised
                    THEN Out("text", chat_id, user_id, "", plan, "raised", 0, "", 0, r.results)
                    ELSE Out("text", chat_id, user_id, "", plan, "ran", 0, "", slot, r.results)
          /\ in_flight' = [in_flight EXCEPT ![slot] =
                             IF r.raised THEN Idle ELSE [@ EXCEPT !.stage = "reply"]]
    /\ UNCHANGED <<user_states, convo_messages, convo_memory, now, tz, stamped>>

\* Lines 1296-1308: the phrasing has come; the reply and the summary are
\* stored and the reply is sent.
OnTextReplySent(slot, new_summary) ==
    /\ in_flight[slot].stage = "reply"
    /\ LET chat_id == in_flight[slot].chat_id
           user_id == in_flight[slot].tg_user_id
       IN /\ convo_messages' = add_history(convo_messages, chat_id, user_id, "assistant")
          /\ convo_memory' = set_summary(convo_memory, chat_id, user_id,
                                         IF new_summary # 0 THEN new_summary
                                         ELSE in_flight[slot].summary)
          /\ out' = Out("text", chat_id, user_id, "", NoPlan, "replied", 1, "final", 0, <<>>)
    /\ in_flight' = [in_flight EXCEPT ![slot] = Idle]
    /\ UNCHANGED <<expenses, budgets, daily_overrides, user_states,
                   next_id, now, tz, stamped>>

\* Time passes: half a day of UTC, up to the clock value last.
TickTo(last) ==
    /\ now < last
    /\ now' = now + 1
    /\ out' = Out("tick", 0, 0, "", NoPlan, "", 0, "", 0, <<>>)
    /\ UNCHANGED <<expenses, budgets, daily_overrides, user_states, convo_messages,
                 convo_memory, next_id, tz, stamped, in_flight>>

\* ---------------------------------------------------------- specifications
\* Zone offsets of the server: UTC, and ahead of UTC by half a day.
Zones == {0, 1}

Init ==
    /\ expenses = {}
    /\ budgets = {}
    /\ daily_overrides = {}
    /\ user_states = {}
    /\ convo_messages = {}
    /\ convo_memory = {}
    /\ stamped = FALSE
    /\ in_flight = [slot \in Slots |-> Idle]
    /\ next_id = 1
    /\ now = 2   \* the first half of UTC day 1
    /\ tz \in Zones
    /\ out = Out("init", 0, 0, "", NoPlan, "", 0, "", 0, <<>>)

Plan1(a) == [type |-> "plan", actions |-> <<a>>]

\* The carryover engine under one user's budget and expense messages, one
\* action per plan.
CarryActions ==
    {[BlankAction EXCEPT !.action = "set_budget", !.main_category = "coffee",
                         !.daily_limit = dl, !.monthly_limit = ml] :
        dl \in {Num(50000)}, ml \in {Null}}
    \cup
    {[BlankAction EXCEPT !.action = "set_budget", !.main_category = "coffee",
                         !.daily_limit = Num(30000), !.monthly_limit = Num(100000)]}
    \cup
    {[BlankAction EXCEPT !.action = "add_expense", !.main_category = "coffee",
                         !.amount = Num(n), !.spent_date = sd] :
        n \in {20000, 90000}, sd \in {Null}}
    \cup
    {[BlankAction EXCEPT !.action = "add_expense", !.main_category = "coffee",
                         !.amount = Num(20000), !.spent_date = Date(today - 1)]}

NextCarry ==
    \/ \E a \in CarryActions : OnTextExecute(1, 1, Plan1(a), "asc")
    \/ TickTo(MaxNow)

SpecCarry == Init /\ [][NextCarry]_vars

\* The whole text and photo handlers for two users of one chat.
Tenants == {<<1, 1>>, <<1, 2>>}
Texts == {"Yes ", "DA.", "No", "maybe"}
\* The orders the store may return rows of equal spent_at in; one order is
\* all there is when no two rows share an instant.
Ties == IF \E e, f \in expenses : e # f /\ e.spent_at = f.spent_at
        THEN {"asc", "desc"} ELSE {"asc"}

DeleteAction(mode) == [BlankAction EXCEPT !.action = "delete_expense", !.mode = mode]
FilterAction(mode, start, end, mc) ==
    [DeleteAction(mode) EXCEPT !.start_date = Date(start), !.end_date = Date(end),
                               !.main_category = mc]

Actions ==
    {[BlankAction EXCEPT !.action = "add_expense", !.amount = Num(20000),
                         !.main_category = "Coffee "],
     [BlankAction EXCEPT !.action = "add_expense", !.amount = Num(90000),
                         !.main_category = "taxi", !.spent_date = Date(today - 1)],
     DeleteAction(""), DeleteAction("last"),
     FilterAction("filter", today - 1, today, ""),
     FilterAction("filter", today, today, "coffee"),
     FilterAction("filter ", today - 1, today, ""),
     [FilterAction("filter", today - 1, today, "") EXCEPT !.sub_category = "latte"]}
    \cup {[DeleteAction("by_id") EXCEPT !.id = Num(i)] : i \in 1..MaxExpenses}

\* One-action plans, and two plans that hold a delete_expense with mode
\* by_id ahead of one the pre-check stops at.
Plans ==
    {Plan1(a) : a \in Actions}
    \cup {[type |-> "plan",
           actions |-> <<[DeleteAction("by_id") EXCEPT !.id = Num(1)], a>>] :
            a \in {DeleteAction("last"), FilterAction("filter", today, today, "coffee")}}

Receipts ==
    {[type |-> "unknown", amount |-> Null, currency |-> "", main_category |-> "", sub_category |-> ""],
     [type |-> "expense", amount |-> Num(20000), currency |-> "uzs", main_category |-> "coffee", sub_category |-> ""]}

Next ==
    \/ \E t \in Tenants, raw \in Texts : OnTextConfirmYes(t[1], t[2], raw)
    \/ \E t \in Tenants, raw \in Texts : OnTextConfirmNo(t[1], t[2], raw)
    \/ \E t \in Tenants, raw \in Texts : OnTextReprompt(t[1], t[2], raw)
    \/ \E t \in Tenants : OnTextIgnored(t[1], t[2])
    \/ \E t \in Tenants : OnTextClarify(t[1], t[2], [type |-> "clarify", actions |-> <<>>])
    \/ \E t \in Tenants, plan \in Plans, tie \in Ties : OnTextPreCheck(t[1], t[2], plan, tie)
    \/ \E t \in Tenants, plan \in Plans, tie \in Ties : OnTextExecute(t[1], t[2], plan, tie)
    \/ \E t \in Tenants, parsed \in Receipts : OnPhoto(t[1], t[2], parsed)
    \/ TickTo(MaxNowConfirm)

Spec == Init /\ [][Next]_vars

\* One user's overrides under everything that user can send: budget
\* changes, expenses dated yesterday, receipts, deletions and confirmation
\* replies.
FreezeActions ==
    {[BlankAction EXCEPT !.action = "set_budget", !.main_category = "coffee",
                         !.daily_limit = Num(n)] : n \in {50000, 30000}}
    \cup
    {[BlankAction EXCEPT !.action = "add_expense", !.main_category = "coffee",
                         !.amount = Num(20000), !.spent_date = Date(today - 1)],
     FilterAction("filter", today - 1, today, "")}

NextFreeze ==
    \/ \E raw \in {"Yes ", "No"} : OnTextConfirmYes(1, 1, raw)
    \/ \E raw \in {"Yes ", "No"} : OnTextConfirmNo(1, 1, raw)
    \/ \E a \in FreezeActions, tie \in Ties : OnTextPreCheck(1, 1, Plan1(a), tie)
    \/ \E a \in FreezeActions, tie \in Ties : OnTextExecute(1, 1, Plan1(a), tie)
    \/ \E parsed \in {r \in Receipts : r.type = "expense"} : OnPhoto(1, 1, parsed)
    \/ TickTo(MaxNowFreeze)

SpecFreeze == Init /\ [][NextFreeze]_vars

\* The scenario of the coffee budget: one user, one daily budget of 50000
\* UZS for coffee, expenses for coffee recorded the day they are made.
ScenarioActions ==
    {[BlankAction EXCEPT !.action = "set_budget", !.main_category = "coffee",
                         !.currency = "UZS", !.daily_limit = Num(50000)]}
    \cup
    {[BlankAction EXCEPT !.action = "add_expense", !.main_category = "coffee",
                         !.currency = "UZS", !.amount = Num(n)] :
        n \in {10000, 20000, 90000}}

NextScenario ==
    \/ \E a \in ScenarioActions : OnTextExecute(1, 1, Plan1(a), "asc")
    \/ TickTo(MaxNow)

SpecScenario == Init /\ [][NextScenario]_vars

\* The three deletion modes and the answers to the confirmation question,
\* for two users of one chat.
DeleteActions ==
    {[BlankAction EXCEPT !.action = "add_expense", !.amount = Num(20000),
                         !.main_category = "coffee"],
     DeleteAction("last"),
     FilterAction("filter", today - 1, today, "")}
    \cup {[DeleteAction("by_id") EXCEPT !.id = Num(i)] : i \in 1..MaxExpenses}
DeletePlans ==
    {Plan1(a) : a \in DeleteActions}
    \cup {[type |-> "plan",
           actions |-> <<[DeleteAction("by_id") EXCEPT !.id = Num(1)], DeleteAction("last")>>]}

NextDelete ==
    \/ \E t \in Tenants, raw \in {"DA.", "No"} : OnTextConfirmYes(t[1], t[2], raw)
    \/ \E t \in Tenants, raw \in {"DA.", "No"} : OnTextConfirmNo(t[1], t[2], raw)
    \/ \E t \in Tenants, plan \in DeletePlans, tie \in Ties : OnTextPreCheck(t[1], t[2], plan, tie)
    \/ \E t \in Tenants, plan \in DeletePlans, tie \in Ties : OnTextExecute(t[1], t[2], plan, tie)
    \/ TickTo(MaxNowConfirm)

SpecDelete == Init /\ [][NextDelete]_vars

\* Three users, two of one chat and one of another.  Each sets a budget,
\* the two of the first chat record expenses from receipts, and the first
\* of them also deletes, by id and by filter, and confirms.
IsoTenants == {<<1, 1>>, <<1, 2>>, <<2, 1>>}
IsoBudget ==
    [BlankAction EXCEPT !.action = "set_budget", !.main_category = "coffee",
                        !.daily_limit = Num(50000)]
IsoDeletes ==
    {[DeleteAction("by_id") EXCEPT !.id = Num(i)] : i \in {1, 2}}
    \cup {FilterAction("filter", today - 1, today, "")}

NextIsolation ==
    \/ OnTextConfirmYes(1, 1, "Yes ")
    \/ \E a \in IsoDeletes : OnTextPreCheck(1, 1, Plan1(a), "asc")
    \/ \E a \in IsoDeletes : OnTextExecute(1, 1, Plan1(a), "asc")
    \/ \E t \in IsoTenants : OnTextExecute(t[1], t[2], Plan1(IsoBudget), "asc")
    \/ \E t \in Tenants, parsed \in {r \in Receipts : r.type = "expense"} :
          OnPhoto(t[1], t[2], parsed)
    \/ TickTo(MaxNowConfirm)

\* The server's zone is UTC here.
InitUtc == Init /\ tz = 0

SpecIsolation == InitUtc /\ [][NextIsolation]_vars

\* One user's plans of two and three actions, among them actions with a
\* malformed or missing amount, missing dates and an unknown name.
BatchActions ==
    {[BlankAction EXCEPT !.action = "add_expense", !.main_category = "coffee",
                         !.amount = Num(20000)],
     [BlankAction EXCEPT !.action = "add_expense", !.main_category = "coffee",
                         !.amount = Bad],
     [BlankAction EXCEPT !.action = "add_expense", !.main_category = "taxi"],
     [BlankAction EXCEPT !.action = "get_stats"],
     [BlankAction EXCEPT !.action = "transfer"],
     [DeleteAction("by_id") EXCEPT !.id = Num(1)]}
BatchPlans ==
    {[type |-> "plan", actions |-> <<a, b>>] : a, b \in BatchActions}
    \cup {[type |-> "plan", actions |-> <<a, [BlankAction EXCEPT !.action = "transfer"], b>>] :
            a, b \in BatchActions}

NextBatch ==
    \/ \E plan \in BatchPlans : OnTextExecute(1, 1, plan, "asc")
    \/ TickTo(MaxNowBatch)

SpecBatch == Init /\ [][NextBatch]_vars

\* One user's messages when the interpreter fails, in the plan phase or in
\* the reply phase, or answers with JSON that is not of the plan or clarify
\* shape: no type tag, an unknown one, no actions.
CallActions ==
    {[BlankAction EXCEPT !.action = "add_expense", !.main_category = "coffee",
                         !.amount = Num(20000)],
     [BlankAction EXCEPT !.action = "add_expense", !.main_category = "coffee",
                         !.amount = Bad],
     [BlankAction EXCEPT !.action = "set_budget", !.main_category = "coffee",
                         !.daily_limit = Num(50000)],
     DeleteAction("last")}
CallPlans ==
    {Plan1(a) : a \in CallActions}
    \cup {[type |-> ty, actions |-> acts] :
            ty \in {"", "report"},
            acts \in {<<>>, <<[BlankAction EXCEPT !.action = "add_expense",
                                                !.main_category = "coffee",
                                                !.amount = Num(20000)]>>}}

NextCall ==
    \/ \E kind \in FailedCalls : OnTextPlanFails(1, 1, Failure(kind))
    \/ \E plan \in CallPlans, kind \in FailedCalls :
          OnTextReplyFails(1, 1, plan, "asc", Failure(kind))
    \/ OnTextClarify(1, 1, ClarifyFallback)
    \/ \E plan \in CallPlans : OnTextPreCheck(1, 1, plan, "asc")
    \/ \E plan \in CallPlans : OnTextExecute(1, 1, plan, "asc")
    \/ \E raw \in {"Yes ", "No"} : OnTextConfirmYes(1, 1, raw)
    \/ \E raw \in {"Yes ", "No"} : OnTextConfirmNo(1, 1, raw)
    \/ TickTo(MaxNowCall)

SpecCall == Init /\ [][NextCall]_vars

\* One user with a budget, expenses and overrides who is asked to confirm
\* a deletion and answers in and out of the two vocabularies.
AnswerActions ==
    {[BlankAction EXCEPT !.action = "set_budget", !.main_category = "coffee",
                         !.daily_limit = Num(50000), !.monthly_limit = Num(100000)],
     [BlankAction EXCEPT !.action = "add_expense", !.main_category = "coffee",
                         !.amount = Num(20000)],
     DeleteAction("last"),
     FilterAction("filter", today - 1, today, "coffee")}
AnswerTexts == {"Yes ", "No", " NET", "maybe", "delete"}

NextAnswer ==
    \/ \E raw \in AnswerTexts : OnTextConfirmYes(1, 1, raw)
    \/ \E raw \in AnswerTexts : OnTextConfirmNo(1, 1, raw)
    \/ \E raw \in AnswerTexts : OnTextReprompt(1, 1, raw)
    \/ \E a \in AnswerActions, tie \in Ties : OnTextPreCheck(1, 1, Plan1(a), tie)
    \/ \E a \in AnswerActions, tie \in Ties : OnTextExecute(1, 1, Plan1(a), tie)
    \/ TickTo(MaxNowAnswer)

SpecAnswer == Init /\ [][NextAnswer]_vars

\* The limit lookup: one user who sets daily budgets for coffee in two
\* currencies and for taxi, and a monthly budget alone for transport, on
\* different days; a second user of the chat with a budget for coffee.
LimitTenants == {<<1, 1>>, <<1, 2>>}
LookupBudgets ==
    {[BlankAction EXCEPT !.action = "set_budget", !.main_category = "coffee",
                         !.daily_limit = Num(20000)],
     [BlankAction EXCEPT !.action = "set_budget", !.main_category = "coffee",
                         !.currency = "USD", !.daily_limit = Num(30000)],
     [BlankAction EXCEPT !.action = "set_budget", !.main_category = "taxi",
                         !.daily_limit = Num(0)],
     [BlankAction EXCEPT !.action = "set_budget", !.main_category = "transport",
                         !.monthly_limit = Num(30000)]}
OtherBudget ==
    [BlankAction EXCEPT !.action = "set_budget", !.main_category = "coffee",
                        !.daily_limit = Num(50000)]

NextLookup ==
    \/ \E a \in LookupBudgets : OnTextExecute(1, 1, Plan1(a), "asc")
    \/ OnTextExecute(1, 2, Plan1(OtherBudget), "asc")
    \/ TickTo(MaxNowLookup)

SpecLookup == Init /\ [][NextLookup]_vars

\* The last expense: one user who records expenses of the moment, of
\* tomorrow and of a day before the window the deletion looks back, asks
\* to delete the last one, with the mode written in three ways, and
\* answers.
LastActions ==
    {[BlankAction EXCEPT !.action = "add_expense", !.amount = Num(20000),
                         !.main_category = "coffee"],
     [BlankAction EXCEPT !.action = "add_expense", !.amount = Num(90000),
                         !.main_category = "taxi", !.spent_date = Date(today + 1)],
     [BlankAction EXCEPT !.action = "add_expense", !.amount = Num(90000),
                         !.main_category = "taxi",
                         !.spent_date = Date(today - LastWindow - 1)],
     DeleteAction(""), DeleteAction("last"), DeleteAction("last ")}

NextLast ==
    \/ \E raw \in {"Yes ", "No"} : OnTextConfirmYes(1, 1, raw)
    \/ \E raw \in {"Yes ", "No"} : OnTextConfirmNo(1, 1, raw)
    \/ \E a \in LastActions, tie \in Ties : OnTextPreCheck(1, 1, Plan1(a), tie)
    \/ \E a \in LastActions, tie \in Ties : OnTextExecute(1, 1, Plan1(a), tie)
    \/ TickTo(MaxNowLast)

SpecLast == Init /\ [][NextLast]_vars

\* The receipts: one user with a budget for coffee who records expenses
\* by text and by photo; the recogniser gives up, or reads an amount that
\* is not a number, or reads an expense, with or without its currency and
\* categories.
PhotoActions ==
    {[BlankAction EXCEPT !.action = "set_budget", !.main_category = "coffee",
                         !.daily_limit = Num(20000), !.monthly_limit = Num(30000)],
     [BlankAction EXCEPT !.action = "add_expense", !.main_category = "coffee",
                         !.amount = Num(18000)]}
PhotoReceipts ==
    Receipts
    \cup {[type |-> "expense", amount |-> Num(12000), currency |-> "",
           main_category |-> "", sub_category |-> ""],
          [type |-> "expense", amount |-> Bad, currency |-> "uzs",
           main_category |-> "coffee", sub_category |-> ""],
          [type |-> "expense", amount |-> Num(2000), currency |-> "UZS",
           main_category |-> "Coffee ", sub_category |-> "latte"]}

NextPhoto ==
    \/ \E a \in PhotoActions : OnTextExecute(1, 1, Plan1(a), "asc")
    \/ \E parsed \in PhotoReceipts : OnPhoto(1, 1, parsed)
    \/ TickTo(MaxNowPhoto)

SpecPhoto == Init /\ [][NextPhoto]_vars

\* The budget rows: one user who sets budgets for coffee, the category
\* and the currency written in different ways, with and without each of
\* the two limits and with a negative daily limit, one or two budgets in
\* a message; a second user of the chat with a budget for coffee.
BudgetActions ==
    {[BlankAction EXCEPT !.action = "set_budget", !.main_category = mc,
                         !.currency = cur, !.daily_limit = dl, !.monthly_limit = ml] :
        mc \in {"coffee"}, cur \in {""},
        dl \in {Null, Num(50000), Num(-5000)}, ml \in {Null, Num(100000)}}
    \cup
    {[BlankAction EXCEPT !.action = "set_budget", !.main_category = "Coffee ",
                         !.currency = "uzs", !.daily_limit = dl, !.monthly_limit = ml] :
        dl \in {Null, Num(50000)}, ml \in {Null, Num(100000)}}
    \cup
    {[BlankAction EXCEPT !.action = "set_budget", !.currency = "USD",
                         !.monthly_limit = Num(100000)]}
BudgetPlans ==
    {Plan1(a) : a \in BudgetActions}
    \cup {[type |-> "plan", actions |-> <<a, b>>] :
            a \in {x \in BudgetActions : x.main_category = "coffee" /\ x.daily_limit = Num(50000)},
            b \in {x \in BudgetActions : x.main_category = "Coffee " /\ x.daily_limit = Null}}

NextBudget ==
    \/ \E plan \in BudgetPlans : OnTextExecute(1, 1, plan, "asc")
    \/ OnTextExecute(1, 2, Plan1(OtherBudget), "asc")
    \/ TickTo(MaxNowBudget)

SpecBudget == Init /\ [][NextBudget]_vars

\* Figures and warnings: one user with a daily and monthly budget for
\* coffee, or a daily budget of 0, and none for transport, who spends on
\* coffee and transport, by text and by receipt.
LimitActions ==
    {[BlankAction EXCEPT !.action = "set_budget", !.main_category = "coffee",
                         !.daily_limit = Num(20000), !.monthly_limit = Num(30000)],
     [BlankAction EXCEPT !.action = "set_budget", !.main_category = "coffee",
                         !.daily_limit = Num(0)],
     [BlankAction EXCEPT !.action = "add_expense", !.main_category = "transport",
                         !.amount = Num(12000)]}
    \cup
    {[BlankAction EXCEPT !.action = "add_expense", !.main_category = "coffee",
                         !.amount = Num(n)] : n \in {18000, 2000}}

NextLimit ==
    \/ \E a \in LimitActions : OnTextExecute(1, 1, Plan1(a), "asc")
    \/ \E parsed \in {r \in Receipts : r.type = "expense"} : OnPhoto(1, 1, parsed)
    \/ TickTo(MaxNowLimit)

SpecLimit == Init /\ [][NextLimit]_vars

\* The conversation memory: the first user's turns are answered, with a
\* summary in the answer or without one, or end where the plan raises; the
\* second user's turns are asked back.  The rows keep their created_at.
InitMemory ==
    /\ expenses = {}
    /\ budgets = {}
    /\ daily_overrides = {}
    /\ user_states = {}
    /\ convo_messages = {}
    /\ convo_memory = {}
    /\ stamped = TRUE
    /\ in_flight = [slot \in Slots |-> Idle]
    /\ next_id = 1
    /\ now = 2
    /\ tz = 0
    /\ out = Out("init", 0, 0, "", NoPlan, "", 0, "", 0, <<>>)

\* Lengths of the summary in a reply-phase answer: none, a short one, one
\* of MAX_SUMMARY_CHARS and one longer than that.
SummaryLengths == {0, 1, MAX_SUMMARY_CHARS, MAX_SUMMARY_CHARS + 1}

StatsPlan == Plan1([BlankAction EXCEPT !.action = "get_stats", !.start_date = Date(1),
                                       !.end_date = Date(1)])
RaisingPlan == Plan1([BlankAction EXCEPT !.action = "add_expense",
                                         !.main_category = "coffee", !.amount = Bad])

\* The table has room for k more rows.
Room(k) == Cardinality(convo_messages) + k <= MaxMessages

NextMemory ==
    \/ \E n \in SummaryLengths : Room(2) /\ OnTextAnswer(1, 1, StatsPlan, "asc", n)
    \/ Room(1) /\ OnTextExecute(1, 1, RaisingPlan, "asc")
    \/ Room(2) /\ OnTextClarify(1, 2, ClarifyFallback)

SpecMemory == InitMemory /\ [][NextMemory]_vars

\* extract_bot_mention on the message texts the model sends: "@bot" is the
\* bot's name in the text.
extract_bot_mention(raw) == raw = "@bot yes"

\* should_process in an allowed group, with MENTION_ONLY as by default: the
\* text mentions the bot or the message replies to one of the bot's.
should_process(raw, reply_to_bot) == extract_bot_mention(raw) \/ reply_to_bot

\* (mutant) the gate is consulted before the pending state
OnText_GateFirst(chat_id, user_id, raw, reply_to_bot, plan, tie) ==
    IF ~should_process(raw, reply_to_bot)
    THEN /\ out' = Out("text", chat_id, user_id, "", NoPlan, "ignored", 0, "", 0, <<>>)
         /\ UNCHANGED <<convo_messages, convo_memory>>
         /\ UNCHANGED <<expenses, budgets, daily_overrides, user_states, next_id, now, tz, stamped, in_flight>>
    ELSE IF Pending(user_states, chat_id, user_id)
    THEN \/ OnTextConfirmYes(chat_id, user_id, raw)
         \/ OnTextConfirmNo(chat_id, user_id, raw)
         \/ OnTextReprompt(chat_id, user_id, raw)
    ELSE \/ OnTextClarify(chat_id, user_id, plan)
         \/ OnTextPreCheck(chat_id, user_id, plan, tie)
         \/ OnTextExecute(chat_id, user_id, plan, tie)

\* on_text, lines 1193-1308, for a non-empty text in an allowed group: the
\* pending state is looked at first, then the gate, then the plan the
\* interpreter gave for the text.
OnText(chat_id, user_id, raw, reply_to_bot, plan, tie) ==
    IF Pending(user_states, chat_id, user_id)
    THEN \/ OnTextConfirmYes(chat_id, user_id, raw)
         \/ OnTextConfirmNo(chat_id, user_id, raw)
         \/ OnTextReprompt(chat_id, user_id, raw)
    ELSE IF ~should_process(raw, reply_to_bot)
    THEN OnTextIgnored(chat_id, user_id)
    ELSE \/ OnTextClarify(chat_id, user_id, plan)
         \/ OnTextPreCheck(chat_id, user_id, plan, tie)
         \/ OnTextExecute(chat_id, user_id, plan, tie)

\* Two users of one chat who record expenses from receipts and by text,
\* ask for deletions alone and inside longer plans, and answer, with and
\* without the bot's name and as replies to the bot or not; days pass.
PendingTexts == {"Yes ", "No", "maybe"}
PendingAdd ==
    [BlankAction EXCEPT !.action = "add_expense", !.main_category = "coffee",
                        !.amount = Num(20000)]
PendingBudget ==
    [BlankAction EXCEPT !.action = "set_budget", !.main_category = "coffee",
                        !.daily_limit = Num(50000)]
PendingPlans ==
    {ClarifyFallback,
     Plan1(DeleteAction("last")),
     Plan1(PendingAdd),
     [type |-> "plan", actions |-> <<PendingAdd, DeleteAction("last")>>],
     [type |-> "plan",
      actions |-> <<FilterAction("filter", today - 1, today, ""), PendingBudget>>]}

\* The messages: texts that neither name the bot nor reply to it (no plan
\* is asked for them), replies to the bot and a text with the bot's name,
\* with the plan the interpreter gives when it is asked.
PendingMessages ==
    {[text |-> raw, reply_to_bot |-> FALSE, plan |-> NoPlan] : raw \in PendingTexts}
    \cup {[text |-> "Yes ", reply_to_bot |-> TRUE, plan |-> plan] : plan \in PendingPlans}
    \cup {[text |-> "@bot yes", reply_to_bot |-> FALSE, plan |-> Plan1(DeleteAction("last"))]}

NextPending ==
    \/ \E t \in Tenants, m \in PendingMessages :
          OnText(t[1], t[2], m.text, m.reply_to_bot, m.plan, "asc")
    \/ \E t \in Tenants, parsed \in Receipts : OnPhoto(t[1], t[2], parsed)
    \/ TickTo(MaxNowPending)

SpecPending == InitUtc /\ [][NextPending]_vars

\* Two text handlers of one user in flight at once, each with a plan that
\* sets the budget or records an expense, today's or yesterday's, or both;
\* receipts are recorded in between and a day passes.
RaceActions ==
    {[BlankAction EXCEPT !.action = "set_budget", !.main_category = "coffee",
                         !.daily_limit = Num(n)] : n \in {50000, 30000}}
    \cup
    {[BlankAction EXCEPT !.action = "add_expense", !.main_category = "coffee",
                         !.amount = Num(20000)],
     [BlankAction EXCEPT !.action = "add_expense", !.main_category = "coffee",
                         !.amount = Num(20000), !.spent_date = Date(today - 1)]}
RacePlans ==
    {Plan1(a) : a \in RaceActions}
    \cup {[type |-> "plan", actions |-> <<a, b>>] :
            a \in {x \in RaceActions : x.action = "set_budget" \/ x.spent_date.k = "date"},
            b \in {x \in RaceActions : x.action = "add_expense" /\ x.spent_date.k = "null"}}

NextRace ==
    \/ \E slot \in Slots : OnTextReceived(slot, 1, 1)
    \/ \E slot \in Slots, plan \in RacePlans : OnTextPlanRuns(slot, plan, "asc")
    \/ \E slot \in Slots : OnTextReplySent(slot, 0)
    \/ \E parsed \in {r \in Receipts : r.type = "expense"} : OnPhoto(1, 1, parsed)
    \/ TickTo(MaxNowRace)

SpecRace == InitUtc /\ [][NextRace]_vars

\* ------------------------------------------------------------------ claims
\* The rows of one key, and its figures, read off the tables directly.
KeyRows(chat_id, user_id, main_category, currency) ==
    {e \in expenses : e.chat_id = chat_id /\ e.tg_user_id = user_id
                      /\ e.main_category = main_category /\ e.currency = currency}
SpentOn(chat_id, user_id, main_category, currency, d) ==
    SumAmount({e \in KeyRows(chat_id, user_id, main_category, currency) : e.spent_date = d})
OverridesOf(chat_id, user_id, main_category, currency, d) ==
    {o \in daily_overrides : o.chat_id = chat_id /\ o.tg_user_id = user_id
                             /\ o.main_category = main_category
                             /\ o.currency = currency /\ o.day = d}
FirstDay(rows) == CHOOSE d \in {e.spent_date : e \in rows} : \A e \in rows : d <= e.spent_date

\* C1: a fresh tenant sets a daily budget of 50000 UZS for coffee and spends
\* 20000 on its first day: the limit fixed for the second day is 80000; with
\* 90000 spent on the second day, the limit fixed for the third day is 40000.
C1_Scenario ==
    \A b \in budgets :
        LET rows == {e \in expenses : e.chat_id = b.chat_id /\ e.tg_user_id = b.tg_user_id}
        IN (/\ tz = 0
            /\ b.main_category = "coffee" /\ b.currency = "UZS"
            /\ b.daily_limit = Num(50000)
            /\ rows # {}
            /\ \A e \in rows : /\ e.main_category = "coffee" /\ e.currency = "UZS"
                               /\ e.spent_at.us > 0)
           =>
           LET d1 == FirstDay(rows)
               spent1 == SpentOn(b.chat_id, b.tg_user_id, "coffee", "UZS", d1)
               spent2 == SpentOn(b.chat_id, b.tg_user_id, "coffee", "UZS", d1 + 1)
           IN /\ (spent1 = 20000 /\ \E e \in rows : e.spent_date = d1 + 1) =>
                   \A o \in OverridesOf(b.chat_id, b.tg_user_id, "coffee", "UZS", d1 + 1) :
                       o.effective_limit = 80000
              /\ (spent1 = 20000 /\ spent2 = 90000) =>
                   \A o \in OverridesOf(b.chat_id, b.tg_user_id, "coffee", "UZS", d1 + 2) :
                       o.effective_limit = 40000

\* The base daily limit of a budget row's key, read off a budgets table.
BaseDaily(bs, o) ==
    (CHOOSE b \in bs : /\ b.chat_id = o.chat_id /\ b.tg_user_id = o.tg_user_id
                       /\ b.main_category = o.main_category
                       /\ b.currency = o.currency).daily_limit.v

\* The limit the carryover law gives day o.day of o's key, from the base
\* daily limit B, the override of the day before (else B) and the sum of
\* the key's expenses dated the day before.
LawLimit(o, B) ==
    LET prev == OverridesOf(o.chat_id, o.tg_user_id, o.main_category, o.currency, o.day - 1)
        L == IF prev # {} THEN (CHOOSE p \in prev : TRUE).effective_limit ELSE B
        S == SpentOn(o.chat_id, o.tg_user_id, o.main_category, o.currency, o.day - 1)
    IN Max(0, B + (L - S))

\* C2: whenever a step creates an override for day D, its limit is
\* max(0, B + (L - S)) with B the base daily limit of the key, L the
\* effective limit of D-1 (its override, else B) and S the key's spending
\* dated D-1 at that moment; it is never negative.
C2_CarryoverLaw ==
    [][\A o \in daily_overrides' \ daily_overrides :
          /\ o.effective_limit = LawLimit(o, BaseDaily(budgets', o))
          /\ o.effective_limit >= 0]_vars

\* A rollover that starts from the override of the day before, finds an
\* overspend larger than the base limit, and floors the new limit at 0.
C2_Witness ==
    \E o \in daily_overrides :
        /\ OverridesOf(o.chat_id, o.tg_user_id, o.main_category, o.currency, o.day - 1) # {}
        /\ o.reason.kind = "deficit"
        /\ o.reason.delta > BaseDaily(budgets, o)
        /\ o.effective_limit = 0

\* The keys and days the tables speak of.
KnownKeys ==
    {[chat_id |-> b.chat_id, tg_user_id |-> b.tg_user_id,
      main_category |-> b.main_category, currency |-> b.currency] : b \in budgets}
KnownDays == {today - 1, today, today + 1}

\* C3: the rollover is idempotent: a second call for the same key and day
\* leaves the tables as the first call left them and reports nothing, and a
\* call for a key and day that has an override leaves the tables as they are.
C3_Idempotent ==
    \A k \in KnownKeys, d \in KnownDays :
        LET r1 == ensure_daily_rollover_for_today(DB, k.chat_id, k.tg_user_id, k.main_category, k.currency, d)
            r2 == ensure_daily_rollover_for_today(r1.db, k.chat_id, k.tg_user_id, k.main_category, k.currency, d)
        IN /\ r2.db = r1.db
           /\ r2.roll = {}
           /\ OverridesOf(k.chat_id, k.tg_user_id, k.main_category, k.currency, d) # {}
                  => (r1.db = DB /\ r1.roll = {})

\* An add_expense has just called the rollover for a day that had its
\* override, after the figures the override was computed from have changed.
C3_Witness ==
    /\ out.branch = "executed"
    /\ Len(out.results) = 1
    /\ out.results[1].action = "add_expense"
    /\ out.results[1].rollover = {}
    /\ \E o \in daily_overrides :
          /\ o.chat_id = out.chat_id /\ o.tg_user_id = out.tg_user_id
          /\ o.main_category = out.results[1].main_category
          /\ o.currency = out.results[1].currency
          /\ o.day = out.results[1].day
          /\ \E b \in budgets : /\ b.chat_id = o.chat_id /\ b.tg_user_id = o.tg_user_id
                                /\ b.main_category = o.main_category
                                /\ b.currency = o.currency /\ b.daily_limit.k = "num"
                                /\ o.effective_limit # LawLimit(o, b.daily_limit.v)

\* C4: first write wins: an override, once written, stays as it is (same
\* limit, same reason) through every later step.
C4_FirstWriteWins ==
    [][\A o \in daily_overrides : o \in daily_overrides']_vars

\* A set_budget has just changed the base daily limit of a key whose
\* override of today was computed from the limit before.
C4_Witness ==
    /\ out.branch = "executed"
    /\ Len(out.results) = 1
    /\ out.results[1].action = "set_budget"
    /\ out.results[1].daily_limit.k = "num"
    /\ \E o \in daily_overrides :
          /\ o.chat_id = out.chat_id /\ o.tg_user_id = out.tg_user_id
          /\ o.main_category = out.results[1].main_category
          /\ o.currency = out.results[1].currency
          /\ o.day = today
          /\ o.effective_limit # LawLimit(o, out.results[1].daily_limit.v)

\* The one result of a one-action plan that ran to its end.
Ran(o, act) ==
    /\ o.event = "text" /\ o.branch = "executed"
    /\ Len(o.results) = 1 /\ o.results[1].action = act

\* C5: an add_expense with a well-formed amount a raises the sum of its key
\* on its target day (the given date, else the executor's current day) by
\* exactly a.
C5_SumGrowsByAmount ==
    [][Ran(out', "add_expense") =>
          LET r == out'.results[1]
          IN sum_expenses(DB', out'.chat_id, out'.tg_user_id, r.day, r.day, r.main_category, r.currency)
             = sum_expenses(DB, out'.chat_id, out'.tg_user_id, r.day, r.day, r.main_category, r.currency)
               + r.amount]_vars

\* C6: after an add_expense on day d for a key with a base daily limit the
\* override of d exists, the reported daily limit is the effective limit of
\* d, the reported daily spent is the sum of the key's expenses on d with
\* the new expense among them, daily left is limit - spent, and monthly left
\* is the base monthly limit minus the sum from the first of d's month to d.
C6_RolloverInsertFigures ==
    Ran(out, "add_expense") =>
        LET r == out.results[1]
            info == CHOOSE i \in r.budget_info : TRUE
            base == {b \in budgets : /\ b.chat_id = out.chat_id /\ b.tg_user_id = out.tg_user_id
                                     /\ b.main_category = r.main_category
                                     /\ b.currency = r.currency}
            ovr == OverridesOf(out.chat_id, out.tg_user_id, r.main_category, r.currency, r.day)
            rows == KeyRows(out.chat_id, out.tg_user_id, r.main_category, r.currency)
        IN (\E b \in base : b.daily_limit.k = "num") =>
              /\ ovr # {}
              /\ \A o \in ovr : info.daily.limit = Num(o.effective_limit)
              /\ info.daily.spent = SumAmount({e \in rows : e.spent_date = r.day})
              /\ \E e \in rows : e.id = r.id /\ e.spent_date = r.day
              /\ info.daily.left = Num(info.daily.limit.v - info.daily.spent)
              /\ \A b \in base : b.monthly_limit.k = "num" =>
                    info.monthly.left =
                        Num(b.monthly_limit.v
                            - SumAmount({e \in rows : month_start(r.day) <= e.spent_date
                                                      /\ e.spent_date <= r.day}))

\* ------------------------------------------------- claims on deletion
\* A delete_expense action and its mode as the executor reads them.
IsDelete(a) == strip(a.action) = "delete_expense"
ExecMode(a) == strip(ModeOf(a))
\* The rows of a user, and those a filter-mode action's date range and
\* given categories describe.
RowsOf(rows, chat_id, user_id) == {e \in rows : e.chat_id = chat_id /\ e.tg_user_id = user_id}
FilterMatches(rows, chat_id, user_id, a) ==
    {e \in RowsOf(rows, chat_id, user_id) :
        /\ a.start_date.v <= e.spent_date /\ e.spent_date <= a.end_date.v
        /\ lower_strip(a.main_category) \in {"", e.main_category}
        /\ lower_strip(a.sub_category) \in {"", e.sub_category}}
\* The most recent rows of a user: those no other row of the user is later
\* than.
Latest(rows, chat_id, user_id) ==
    {e \in RowsOf(rows, chat_id, user_id) :
        \A f \in RowsOf(rows, chat_id, user_id) :
            \/ f.spent_at.t < e.spent_at.t
            \/ f.spent_at.t = e.spent_at.t /\ f.spent_at.us <= e.spent_at.us}
\* The ids a user's PendingAction holds; {} when the user is idle.
PendingIds(states, chat_id, user_id) ==
    UNION {Range(st.ids) : st \in {x \in get_state(states, chat_id, user_id) :
                                      x.pending /\ x.kind = "confirm_delete"}}
\* A text message that came with a one-action plan.
OnePlan(o) == o.event = "text" /\ o.plan.type = "plan" /\ Len(o.plan.actions) = 1

\* C7: a delete_expense with mode filter that matches at least one row, and
\* one with mode last when the user has an expense, removes no expense in
\* the turn that carries the plan and leaves a PendingAction holding the
\* matched ids; a row a PendingAction holds disappears only by a yes of
\* the same user.
C7_ConfirmBeforeRemoval ==
    [][/\ OnePlan(out') /\ IsDelete(out'.plan.actions[1]) =>
            LET a == out'.plan.actions[1]
                c == out'.chat_id
                u == out'.tg_user_id
            IN /\ (ExecMode(a) = "filter" /\ FilterMatches(expenses, c, u, a) # {}) =>
                     /\ expenses' = expenses
                     /\ Pending(user_states', c, u)
                     /\ PendingIds(user_states', c, u)
                          = {e.id : e \in FilterMatches(expenses, c, u, a)}
               /\ (ExecMode(a) = "last" /\ RowsOf(expenses, c, u) # {}) =>
                     /\ expenses' = expenses
                     /\ Pending(user_states', c, u)
                     /\ PendingIds(user_states', c, u)
                          \in {{e.id} : e \in Latest(expenses, c, u)}
       /\ \A e \in expenses \ expenses' :
             e.id \in PendingIds(user_states, e.chat_id, e.tg_user_id) =>
                /\ out'.branch = "confirm_yes"
                /\ out'.chat_id = e.chat_id /\ out'.tg_user_id = e.tg_user_id]_vars

\* C8: a filter-mode delete_expense whose date range and given category
\* and subcategory match no row of the user creates no PendingAction,
\* removes nothing, and is answered that nothing matched.
C8_ZeroMatchNoPending ==
    [][OnePlan(out') /\ IsDelete(out'.plan.actions[1]) =>
            LET a == out'.plan.actions[1]
                c == out'.chat_id
                u == out'.tg_user_id
            IN (ExecMode(a) = "filter" /\ FilterMatches(expenses, c, u, a) = {}) =>
                  /\ ~Pending(user_states', c, u)
                  /\ expenses' = expenses
                  /\ ModeOf(a) = "filter" => out'.reply = "nothing_matched"]_vars

C10_YesDeletesPending ==
    [][\A t \in Tenants :
          (/\ Pending(user_states, t[1], t[2])
           /\ out'.event = "text" /\ out'.chat_id = t[1] /\ out'.tg_user_id = t[2]
           /\ text_low(out'.text) \in YesWords)
          => LET gone == {e \in RowsOf(expenses, t[1], t[2]) :
                            e.id \in PendingIds(user_states, t[1], t[2])}
             IN /\ expenses' = expenses \ gone
                /\ out'.reply = "deleted" /\ out'.n = Cardinality(gone)
                /\ out'.replies = 1
                /\ ~Pending(user_states', t[1], t[2])
                /\ get_state(user_states', t[1], t[2]) = {}]_vars

\* A yes written "DA." has just removed the two rows a filter-mode
\* deletion had found.
C10_Witness ==
    /\ out.branch = "confirm_yes" /\ out.text = "DA." /\ out.n = 2
    /\ RowsOf(expenses, out.chat_id, out.tg_user_id) = {}
    /\ ~Pending(user_states, out.chat_id, out.tg_user_id)

\* --------------------------------------------- claims on the answers
\* The user's budget rows and override rows.
BudgetsOf(rows, chat_id, user_id) == {b \in rows : b.chat_id = chat_id /\ b.tg_user_id = user_id}

\* C11: while a user has a PendingAction, a message of that user in the
\* no-vocabulary (whatever its case and padding) clears the PendingAction
\* and leaves the user's expenses, budgets and overrides as they were.
C11_NoClearsOnly ==
    [][\A t \in Tenants :
          (/\ Pending(user_states, t[1], t[2])
           /\ out'.event = "text" /\ out'.chat_id = t[1] /\ out'.tg_user_id = t[2]
           /\ text_low(out'.text) \in NoWords)
          => /\ get_state(user_states', t[1], t[2]) = {}
             /\ RowsOf(expenses', t[1], t[2]) = RowsOf(expenses, t[1], t[2])
             /\ BudgetsOf(budgets', t[1], t[2]) = BudgetsOf(budgets, t[1], t[2])
             /\ BudgetsOf(daily_overrides', t[1], t[2]) = BudgetsOf(daily_overrides, t[1], t[2])
             /\ out'.replies = 1 /\ out'.reply = "cancelled"]_vars

\* A " NET" has just cancelled a deletion: the user is idle and still has
\* an expense, a budget and an override.
C11_Witness ==
    /\ out.branch = "confirm_no" /\ out.text = " NET"
    /\ get_state(user_states, out.chat_id, out.tg_user_id) = {}
    /\ RowsOf(expenses, out.chat_id, out.tg_user_id) # {}
    /\ BudgetsOf(budgets, out.chat_id, out.tg_user_id) # {}
    /\ BudgetsOf(daily_overrides, out.chat_id, out.tg_user_id) # {}

\* C12: while a user has a PendingAction, a text of that user outside both
\* vocabularies is answered by the re-prompt and consumes nothing: the
\* PendingAction with its ids, the expenses, the budgets and the overrides
\* are unchanged, and no plan is made or executed.
C12_RepromptKeepsPending ==
    [][\A t \in Tenants :
          (/\ Pending(user_states, t[1], t[2])
           /\ out'.event = "text" /\ out'.chat_id = t[1] /\ out'.tg_user_id = t[2]
           /\ text_low(out'.text) \notin YesWords \cup NoWords)
          => /\ out'.replies = 1 /\ out'.reply = "answer_yes_or_no"
             /\ user_states' = user_states
             /\ expenses' = expenses /\ next_id' = next_id
             /\ budgets' = budgets
             /\ daily_overrides' = daily_overrides
             /\ out'.plan = NoPlan /\ out'.results = <<>>]_vars

\* The text "delete" has just been answered by the re-prompt while the
\* deletion of an existing row is still pending, budget and override in
\* place.
C12_Witness ==
    /\ out.branch = "reprompt" /\ out.text = "delete"
    /\ Pending(user_states, out.chat_id, out.tg_user_id)
    /\ \E e \in RowsOf(expenses, out.chat_id, out.tg_user_id) :
          e.id \in PendingIds(user_states, out.chat_id, out.tg_user_id)
    /\ budgets # {} /\ daily_overrides # {}

\* ------------------------------------------------ claims on the ledger
\* Id lists to delete by: empty, single, pairs (repeats included), over the
\* ids the ledger may hold and one it never holds.
IdLists ==
    {<<>>} \cup {<<i>> : i \in 1..(MaxExpenses + 1)}
           \cup {<<i, j>> : i, j \in 1..(MaxExpenses + 1)}

\* C13: delete(chat, user, ids) removes exactly the expenses of (chat,
\* user) whose id is in ids, returns their number, accepts ids that match
\* no row, and leaves every row of another user in place, also one whose
\* id is in ids.
C13_DeleteExact ==
    \A t \in Tenants, ids \in IdLists :
        LET r == delete_expenses_by_ids(DB, t[1], t[2], ids)
            hit == {e \in expenses : /\ e.chat_id = t[1] /\ e.tg_user_id = t[2]
                                      /\ \E i \in 1..Len(ids) : ids[i] = e.id}
        IN /\ r.db.expenses = expenses \ hit
           /\ r.deleted = Cardinality(hit)
           /\ \A e \in expenses :
                 (e.chat_id # t[1] \/ e.tg_user_id # t[2]) => e \in r.db.expenses
           /\ r.db.budgets = budgets /\ r.db.daily_overrides = daily_overrides
           /\ r.db.next_id = next_id

\* A deletion by an id that belongs to another user has just run: it
\* removed nothing and the other user's row is still there.
C13_Witness ==
    /\ out.event = "text" /\ out.branch = "executed"
    /\ Len(out.results) = 1
    /\ out.results[1].action = "delete_expense" /\ out.results[1].mode = "by_id"
    /\ out.results[1].deleted = 0
    /\ \E e \in expenses :
          /\ e.id = out.results[1].ids[1]
          /\ e.tg_user_id # out.tg_user_id
    /\ \E e \in RowsOf(expenses, out.chat_id, out.tg_user_id) : TRUE

\* ---------------------------------------------- claims on isolation
\* What the tables hold for one user.
OwnData(db, states, messages, memory, chat_id, user_id) ==
    [expenses |-> RowsOf(db.expenses, chat_id, user_id),
     budgets |-> BudgetsOf(db.budgets, chat_id, user_id),
     daily_overrides |-> BudgetsOf(db.daily_overrides, chat_id, user_id),
     state |-> get_state(states, chat_id, user_id),
     convo_messages |-> BudgetsOf(messages, chat_id, user_id),
     convo_memory |-> BudgetsOf(memory, chat_id, user_id)]
\* The tables with the rows of everyone but one user removed.
OnlyOf(db, chat_id, user_id) ==
    [db EXCEPT !.expenses = RowsOf(@, chat_id, user_id),
               !.budgets = BudgetsOf(@, chat_id, user_id),
               !.daily_overrides = BudgetsOf(@, chat_id, user_id)]
\* sum, find, breakdown and the effective daily limit of one user give
\* on db what they give on the user's own rows alone.
ReadsOwnOnly(db, chat_id, user_id) ==
    LET own == OnlyOf(db, chat_id, user_id)
    IN \A start \in (today - 1)..today :
         /\ \A f \in {<<"", "">>, <<"coffee", "">>, <<"coffee", "coffee">>} :
               /\ sum_expenses(db, chat_id, user_id, start, today, f[1], IF f[1] = "" THEN "" ELSE "UZS")
                    = sum_expenses(own, chat_id, user_id, start, today, f[1], IF f[1] = "" THEN "" ELSE "UZS")
               /\ find_expenses(db, chat_id, user_id, start, today, f[1], f[2], "asc")
                    = find_expenses(own, chat_id, user_id, start, today, f[1], f[2], "asc")
         /\ breakdown_main_sub(db, chat_id, user_id, start, today)
               = breakdown_main_sub(own, chat_id, user_id, start, today)
         /\ get_effective_daily_limit(db, chat_id, user_id, "coffee", "UZS", start)
               = get_effective_daily_limit(own, chat_id, user_id, "coffee", "UZS", start)

\* C14: an event handled for one user leaves every other user's expenses,
\* budgets, overrides, PendingAction and conversation memory unchanged,
\* and what sum, find, breakdown and the effective daily limit give for a
\* user does not depend on the rows of the others.
C14_TenantIsolation ==
    /\ [](\A t \in IsoTenants : ReadsOwnOnly(DB, t[1], t[2]))
    /\ [][\A t \in IsoTenants :
             t # <<out'.chat_id, out'.tg_user_id>> =>
                OwnData(DB', user_states', convo_messages', convo_memory', t[1], t[2])
                  = OwnData(DB, user_states, convo_messages, convo_memory, t[1], t[2])]_vars

\* A user has just confirmed a deletion that emptied their ledger while a
\* user of the same chat and a user of another chat hold expenses,
\* budgets and overrides.
C14_Witness ==
    /\ out.branch = "confirm_yes" /\ out.n >= 1
    /\ \E t \in IsoTenants :
          /\ t[1] = out.chat_id /\ t[2] # out.tg_user_id
          /\ RowsOf(expenses, t[1], t[2]) # {}
          /\ BudgetsOf(daily_overrides, t[1], t[2]) # {}
    /\ \E t \in IsoTenants :
          /\ t[1] # out.chat_id
          /\ BudgetsOf(budgets, t[1], t[2]) # {}
          /\ BudgetsOf(convo_memory, t[1], t[2]) # {}

\* ------------------------------------------------ claims on batches
\* An add_expense action whose amount is not a number (non-numeric or
\* missing).
IsAdd(a) == strip(a.action) = "add_expense"
BadAmount(a) == IsAdd(a) /\ a.amount.k # "num"
GoodAdd(a) == IsAdd(a) /\ a.amount.k = "num" /\ a.spent_date.k # "bad"

\* C15: for a plan of two add_expense actions of which one has a malformed
\* or missing amount, in either order, the well-formed expense is recorded
\* and the results hold a success entry for it and an error entry for the
\* malformed action.
C15_MalformedDoesNotStop ==
    [][(/\ out'.event = "text" /\ out'.plan.type = "plan" /\ Len(out'.plan.actions) = 2
        /\ \E i, j \in 1..2 : /\ i # j /\ GoodAdd(out'.plan.actions[i])
                               /\ BadAmount(out'.plan.actions[j]))
       => LET acts == out'.plan.actions
              i == CHOOSE k \in 1..2 : GoodAdd(acts[k])
              j == 3 - i
          IN /\ \E e \in expenses' \ expenses :
                   /\ e.chat_id = out'.chat_id /\ e.tg_user_id = out'.tg_user_id
                   /\ e.amount = acts[i].amount.v
             /\ Len(out'.results) = 2
             /\ out'.results[i].action = "add_expense" /\ out'.results[i].error = ""
             /\ out'.results[j].error # ""]_vars

\* The actions of a list whose name the executor knows, in their order, and
\* the positions of the others.
KnownNames ==
    {"set_budget", "add_expense", "get_history", "get_categories", "get_stats",
     "suggest_savings", "delete_expense"}
RECURSIVE KnownOnly(_)
KnownOnly(actions) ==
    IF actions = <<>> THEN <<>>
    ELSE IF strip(Head(actions).action) \in KnownNames
    THEN <<Head(actions)>> \o KnownOnly(Tail(actions))
    ELSE KnownOnly(Tail(actions))
RECURSIVE DropErrors(_)
DropErrors(results) ==
    IF results = <<>> THEN <<>>
    ELSE IF Head(results).error = "unknown_action" THEN DropErrors(Tail(results))
    ELSE <<Head(results)>> \o DropErrors(Tail(results))

\* C16: an action with an unknown name gets an error entry and blocks no
\* other action: the actions before and after it do to the tables what
\* they do in the plan without it, and when the plan runs to its end the
\* results hold one entry per action in order, the error entry at the
\* unknown action's place.
C16_UnknownActionSkipped ==
    [][(/\ out'.event = "text" /\ out'.plan.type = "plan"
        /\ out'.branch \in {"executed", "raised"}
        /\ \E i \in 1..Len(out'.plan.actions) :
              strip(out'.plan.actions[i].action) \notin KnownNames)
       => LET acts == out'.plan.actions
              rest == execute_plan(DB, out'.chat_id, out'.tg_user_id,
                                   [type |-> "plan", actions |-> KnownOnly(acts)], "asc")
          IN /\ DB' = rest.db
             /\ (out'.branch = "raised") = rest.raised
             /\ DropErrors(out'.results) = rest.results
             /\ out'.branch = "executed" =>
                   /\ Len(out'.results) = Len(acts)
                   /\ \A i \in 1..Len(acts) :
                         IF strip(acts[i].action) \in KnownNames
                         THEN /\ out'.results[i].action = strip(acts[i].action)
                              /\ out'.results[i].error = ""
                         ELSE /\ out'.results[i].action = strip(acts[i].action)
                              /\ out'.results[i].error = "unknown_action"]_vars

\* A plan of an expense, an unknown action and a deletion by id has run to
\* its end: three results, the error in the middle, the expense recorded
\* and removed again.
C16_Witness ==
    /\ out.branch = "executed" /\ Len(out.results) = 3
    /\ out.results[1].action = "add_expense" /\ out.results[1].id = 1
    /\ out.results[2].error = "unknown_action"
    /\ out.results[3].action = "delete_expense" /\ out.results[3].deleted = 1
    /\ expenses = {} /\ next_id = 2

\* ----------------------------------------- claims on the interpreter
\* C17: when the plan-phase call has no API key, gets an HTTP error
\* status, gets no output text or gets text that is not JSON, the user is
\* sent a clarifying question, the executor does not run, and no expense,
\* budget, override or PendingAction is created, changed or removed.
C17_UnavailableClarifies ==
    [][out'.branch \in {"plan_no_key", "plan_status", "plan_empty", "plan_not_json"} =>
          /\ out'.replies = 1
          /\ out'.reply \in {"set_the_key", "say_it_shorter", "say_it_again"}
          /\ out'.plan.type = "clarify"
          /\ out'.results = <<>>
          /\ expenses' = expenses /\ next_id' = next_id
          /\ budgets' = budgets
          /\ daily_overrides' = daily_overrides
          /\ user_states' = user_states]_vars

\* The interpreter has just answered with an HTTP error status: the user,
\* who has an expense, a budget and an override, was asked to say it
\* shorter.
C17_Witness ==
    /\ out.branch = "plan_status" /\ out.reply = "say_it_shorter"
    /\ expenses # {} /\ budgets # {} /\ daily_overrides # {}

\* C18: when the plan-phase output is JSON but not of the plan or clarify
\* shape (no type tag, an unknown one, no actions), the turn becomes a
\* clarifying question: the executor does not run and nothing is written.
C18_NonConformingClarifies ==
    [][(/\ out'.event = "text" /\ out'.plan # NoPlan
        /\ out'.plan.type \notin {"plan", "clarify"})
       => /\ out'.replies = 1
          /\ out'.branch = "clarify"
          /\ out'.results = <<>>
          /\ expenses' = expenses /\ next_id' = next_id
          /\ budgets' = budgets
          /\ daily_overrides' = daily_overrides
          /\ user_states' = user_states]_vars

\* C19: when an interpreter call, in the plan phase or in the reply phase,
\* runs into its request timeout, the user still gets exactly one reply.
C19_TimeoutStillReplies ==
    [][out'.branch \in {"plan_timeout", "reply_timeout"} => out'.replies = 1]_vars

\* C20: every text event that is processed gets exactly one reply, on
\* every path: also when an action of the plan is malformed and when an
\* interpreter call fails.
C20_OneReplyPerEvent ==
    [][(out'.event = "text" /\ out'.branch # "ignored") => out'.replies = 1]_vars

\* ------------------------------------- claims on limits and warnings
\* The keys and days a lookup is tried on.
LimitCategories == {"coffee", "taxi", "transport"}
LimitCurrencies == {"UZS", "USD"}
\* The budget rows of a key that carry a daily limit.
DailyBase(chat_id, user_id, main_category, currency) ==
    {b \in budgets : /\ b.chat_id = chat_id /\ b.tg_user_id = user_id
                      /\ b.main_category = main_category /\ b.currency = currency
                      /\ b.daily_limit.k = "num"}

\* C21: the effective daily limit of a key and day is the override of
\* exactly that user, category, currency and day, with source "override",
\* when there is one; else the base daily limit of the key, with source
\* "base", when one is set; else absent.  An override of another day,
\* category, currency or user is never what it returns.
C21_EffectiveLimitLookup ==
    \A t \in LimitTenants, mc \in LimitCategories, cur \in LimitCurrencies,
       d \in (today - 1)..(today + 1) :
        LET got == get_effective_daily_limit(DB, t[1], t[2], mc, cur, d)
            ovr == OverridesOf(t[1], t[2], mc, cur, d)
            base == DailyBase(t[1], t[2], mc, cur)
        IN /\ Cardinality(got) <= 1
           /\ ovr # {} =>
                 got = {[limit |-> o.effective_limit, reason |-> o.reason,
                         source |-> "override"] : o \in ovr}
           /\ (ovr = {} /\ base # {}) =>
                 got = {[limit |-> b.daily_limit.v, reason |-> BaseReason,
                         source |-> "base"] : b \in base}
           /\ (ovr = {} /\ base = {}) => got = {}

\* A user's coffee key has an override of yesterday and none of today, so
\* that today's limit is the base, a different amount; the same user has
\* overrides of today for coffee in the other currency and for taxi and a
\* transport budget without a daily limit, and the other user an override
\* of today for coffee.
C21_Witness ==
    \E t \in LimitTenants :
        /\ OverridesOf(t[1], t[2], "coffee", "UZS", today) = {}
        /\ \E o \in OverridesOf(t[1], t[2], "coffee", "UZS", today - 1) :
              \E b \in DailyBase(t[1], t[2], "coffee", "UZS") :
                  o.effective_limit # b.daily_limit.v
        /\ OverridesOf(t[1], t[2], "coffee", "USD", today) # {}
        /\ OverridesOf(t[1], t[2], "taxi", "UZS", today) # {}
        /\ \E b \in budgets : /\ b.chat_id = t[1] /\ b.tg_user_id = t[2]
                                /\ b.main_category = "transport" /\ b.daily_limit = Null
        /\ \E u \in LimitTenants \ {t} : OverridesOf(u[1], u[2], "coffee", "UZS", today) # {}

\* C22: an add_expense for a key (user, category, currency) that has no
\* budget row records the expense, creates no override, and reports the
\* daily and the monthly limit and left as absent (null, not 0) and both
\* low-budget flags as false.
C22_NoBudgetAbsentFigures ==
    [][Ran(out', "add_expense") =>
          LET r == out'.results[1]
              c == out'.chat_id
              u == out'.tg_user_id
              info == CHOOSE i \in r.budget_info : TRUE
          IN (~\E b \in budgets : /\ b.chat_id = c /\ b.tg_user_id = u
                                   /\ b.main_category = r.main_category
                                   /\ b.currency = r.currency)
             => /\ \E e \in expenses' \ expenses :
                      /\ expenses' = expenses \cup {e}
                      /\ e.id = r.id /\ e.chat_id = c /\ e.tg_user_id = u
                      /\ e.amount = out'.plan.actions[1].amount.v
                      /\ e.main_category = r.main_category /\ e.currency = r.currency
                /\ daily_overrides' = daily_overrides
                /\ budgets' = budgets
                /\ r.rollover = {}
                /\ info.daily.limit = Null /\ info.daily.left = Null
                /\ info.daily.warn = FALSE
                /\ info.monthly.limit = Null /\ info.monthly.left = Null
                /\ info.monthly.warn = FALSE]_vars

\* 12000 has just been recorded for transport, which has no budget, by a
\* user whose coffee key has a budget, an override of the day and an
\* expense of the day: the transport figures are absent and nothing was
\* added to the overrides.
C22_Witness ==
    /\ Ran(out, "add_expense")
    /\ out.results[1].main_category = "transport" /\ out.results[1].amount = 12000
    /\ \E e \in expenses : e.id = out.results[1].id /\ e.main_category = "transport"
    /\ \A i \in out.results[1].budget_info : i.daily.limit = Null /\ i.monthly.limit = Null
    /\ \E b \in budgets : b.main_category = "coffee" /\ b.monthly_limit.k = "num"
    /\ \E o \in daily_overrides : o.main_category = "coffee" /\ o.day = out.results[1].day
    /\ \E e \in expenses : e.main_category = "coffee" /\ e.spent_date = out.results[1].day
    /\ \A o \in daily_overrides : o.main_category # "transport"

\* C23 as stated: an override is written only with a limit that differs
\* from the base daily limit in force when it is written.
C23_OverrideDiffersFromBase ==
    [][\A o \in daily_overrides' \ daily_overrides :
          o.effective_limit # BaseDaily(budgets', o)]_vars

\* A step that ran the rollover once: a one-action plan of set_budget or
\* add_expense, or a recognised receipt; and the key and day it ran for.
Rolled(o) ==
    \/ Ran(o, "add_expense") \/ Ran(o, "set_budget")
    \/ o.event = "photo" /\ o.branch = "recorded"
RolledKey(o) ==
    [main_category |-> o.results[1].main_category, currency |-> o.results[1].currency,
     day |-> IF o.results[1].action = "add_expense" THEN o.results[1].day ELSE today]

\* C23 (amended): an override row is written only by the rollover of its
\* key and day, in a set_budget, add_expense or receipt step of its user,
\* and the rollover writes the override of every day it computes, also
\* when the limit equals the base daily limit: a limit computed from a
\* delta of 0 is the base daily limit and is written with the exact-match
\* reason, and a written limit equals the base only then or when the base
\* is 0.
C23_OverrideEveryComputedDay ==
    [][/\ \A o \in daily_overrides' \ daily_overrides :
             /\ Rolled(out')
             /\ o.chat_id = out'.chat_id /\ o.tg_user_id = out'.tg_user_id
             /\ o.main_category = RolledKey(out').main_category
             /\ o.currency = RolledKey(out').currency
             /\ o.day = RolledKey(out').day
             /\ o.reason.kind = "none" => o.effective_limit = BaseDaily(budgets', o)
             /\ o.effective_limit = BaseDaily(budgets', o) =>
                   (o.reason.kind = "none" \/ BaseDaily(budgets', o) = 0)
       /\ Rolled(out') =>
             LET k == RolledKey(out')
             IN (\E b \in budgets' :
                    /\ b.chat_id = out'.chat_id /\ b.tg_user_id = out'.tg_user_id
                    /\ b.main_category = k.main_category /\ b.currency = k.currency
                    /\ b.daily_limit.k = "num")
                => \E o \in daily_overrides' :
                      /\ o.chat_id = out'.chat_id /\ o.tg_user_id = out'.tg_user_id
                      /\ o.main_category = k.main_category /\ o.currency = k.currency
                      /\ o.day = k.day]_vars

\* A set_budget of 20000 a day has just rolled a day whose eve saw exactly
\* 20000 spent: the override of the day is 20000, the base itself, with
\* the exact-match reason.
C23_Witness ==
    /\ Ran(out, "set_budget")
    /\ out.results[1].daily_limit = Num(20000)
    /\ SpentOn(out.chat_id, out.tg_user_id, "coffee", "UZS", today - 1) = 20000
    /\ \E o \in OverridesOf(out.chat_id, out.tg_user_id, "coffee", "UZS", today) :
          /\ o.effective_limit = 20000
          /\ o.reason.kind = "none"

\* C26: in the result of add_expense the daily low-budget flag is true
\* exactly when a daily limit exists and the amount left, limit - spent,
\* is below 10% of the limit (10 * left < limit), whatever the limit, 0
\* included; likewise the monthly flag with the monthly limit; a flag is
\* false when its limit is absent.
C26_LowFlagBelowTenth ==
    Ran(out, "add_expense") =>
        \A info \in out.results[1].budget_info :
            /\ info.daily.warn =
                  (/\ info.daily.limit.k = "num"
                   /\ 10 * (info.daily.limit.v - info.daily.spent) < info.daily.limit.v)
            /\ info.monthly.warn =
                  (/\ info.monthly.limit.k = "num"
                   /\ 10 * (info.monthly.limit.v - info.monthly.spent) < info.monthly.limit.v)

\* ------------------------------------------- claims on the budget rows
\* The category and the currency a set_budget action addresses: the names
\* written in any case and padding are one name, and no currency is the
\* default currency.
AddressedCategory(a) ==
    CASE a.main_category \in {"coffee", "Coffee "} -> "coffee"
      [] a.main_category = "" -> "other"
      [] OTHER -> a.main_category
AddressedCurrency(a) ==
    CASE a.currency \in {"", "uzs", "UZS"} -> "UZS"
      [] OTHER -> a.currency
\* The last action of a list that addresses a category and currency, as a
\* set of at most one action.
LastFor(actions, mc, cur) ==
    LET at == {i \in 1..Len(actions) : /\ AddressedCategory(actions[i]) = mc
                                        /\ AddressedCurrency(actions[i]) = cur}
    IN IF at = {} THEN {}
       ELSE {actions[CHOOSE i \in at : \A j \in at : j <= i]}
BudgetKeys == {<<"coffee", "UZS">>, <<"other", "USD">>, <<"coffee", "USD">>, <<"other", "UZS">>}
KeyBudgets(rows, chat_id, user_id, mc, cur) ==
    {b \in BudgetsOf(rows, chat_id, user_id) : b.main_category = mc /\ b.currency = cur}

\* C24: there is at most one budget row per (chat, user, category,
\* currency); after a message of set_budget actions the row of every key
\* an action addressed holds exactly the daily and the monthly limit of
\* the last action for that key, a limit not given being absent, and
\* every other row is as before; names that differ in case or padding,
\* and a missing currency and the default one, address the same row.
C24_SetBudgetUpsert ==
    /\ [](\A b1, b2 \in budgets :
             (/\ b1.chat_id = b2.chat_id /\ b1.tg_user_id = b2.tg_user_id
              /\ b1.main_category = b2.main_category /\ b1.currency = b2.currency)
             => b1 = b2)
    /\ [][(out'.event = "text" /\ out'.branch = "executed") =>
             LET acts == out'.plan.actions
                 c == out'.chat_id
                 u == out'.tg_user_id
             IN /\ \A k \in BudgetKeys :
                      LET last == LastFor(acts, k[1], k[2])
                      IN IF last = {}
                         THEN KeyBudgets(budgets', c, u, k[1], k[2])
                                = KeyBudgets(budgets, c, u, k[1], k[2])
                         ELSE KeyBudgets(budgets', c, u, k[1], k[2])
                                = {[chat_id |-> c, tg_user_id |-> u,
                                    main_category |-> k[1], currency |-> k[2],
                                    daily_limit |-> a.daily_limit,
                                    monthly_limit |-> a.monthly_limit] : a \in last}
                /\ \A b \in budgets' : b.chat_id = c /\ b.tg_user_id = u =>
                      <<b.main_category, b.currency>> \in BudgetKeys
                /\ {b \in budgets' : b.chat_id # c \/ b.tg_user_id # u}
                     = {b \in budgets : b.chat_id # c \/ b.tg_user_id # u}]_vars

\* A budget written "Coffee " in "uzs" with a monthly limit alone has just
\* replaced the row of coffee in UZS, which had a daily limit (its
\* override is still there): the one row of the key has no daily limit.
C24_Witness ==
    /\ Ran(out, "set_budget")
    /\ out.plan.actions[1].main_category = "Coffee " /\ out.plan.actions[1].currency = "uzs"
    /\ KeyBudgets(budgets, out.chat_id, out.tg_user_id, "coffee", "UZS")
          = {[chat_id |-> out.chat_id, tg_user_id |-> out.tg_user_id,
              main_category |-> "coffee", currency |-> "UZS",
              daily_limit |-> Null, monthly_limit |-> Num(100000)]}
    /\ OverridesOf(out.chat_id, out.tg_user_id, "coffee", "UZS", today) # {}
    /\ \E b \in budgets : b.tg_user_id # out.tg_user_id

\* C25: every daily limit and every monthly limit of a budget row is
\* absent or at least 0.
C25_LimitsNotNegative ==
    \A b \in budgets :
        /\ b.daily_limit.k = "num" => b.daily_limit.v >= 0
        /\ b.monthly_limit.k = "num" => b.monthly_limit.v >= 0

\* ------------------------------------------ claims on the last expense
\* The ids a step with a delete_expense of mode last targeted: the id it
\* asks about, or the ids it deleted by.
Targeted(o) ==
    IF o.branch = "ask_last" THEN {o.n}
    ELSE IF o.branch = "executed" THEN Range(o.results[1].ids)
    ELSE {}

\* C27: a delete_expense with mode last targets the user's most recent
\* expense in the whole ledger: when the user has an expense, whatever
\* the dates of the user's expenses, the id targeted is that of an
\* expense with the latest spent instant; nothing to delete is reported
\* only when the user has no expense.
C27_LastIsMostRecent ==
    [][(/\ OnePlan(out') /\ IsDelete(out'.plan.actions[1])
        /\ ExecMode(out'.plan.actions[1]) = "last")
       => LET c == out'.chat_id
              u == out'.tg_user_id
          IN IF RowsOf(expenses, c, u) # {}
             THEN /\ Targeted(out') \in {{e.id} : e \in Latest(expenses, c, u)}
                  /\ out'.reply # "nothing_to_delete"
             ELSE Targeted(out') = {}]_vars

\* ------------------------------------------------------ claims on find
\* The filters a find is tried with: none, the main category alone, both,
\* and the sub category alone.
FindFilters == {<<"", "">>, <<"coffee", "">>, <<"coffee", "coffee">>, <<"", "coffee">>,
                <<"", "latte">>}
\* q is not later than r.
NotLater(q, r) ==
    \/ q.spent_at.t < r.spent_at.t
    \/ q.spent_at.t = r.spent_at.t /\ q.spent_at.us <= r.spent_at.us

\* C28: find(chat, user, start, end, filters) returns exactly the user's
\* expenses dated in [start, end] that match the main category when one is
\* given and the sub category when one is given, also a sub category
\* given alone, each once, most recent first; and a filter-mode deletion
\* holds in its PendingAction only ids of rows that match its category
\* and sub category.
C28_FindMatchesAllFilters ==
    /\ [](\A t \in Tenants, start \in (today - 1)..today, f \in FindFilters, tie \in Ties :
             LET rows == find_expenses(DB, t[1], t[2], start, today, f[1], f[2], tie)
             IN /\ Range(rows) = {e \in RowsOf(expenses, t[1], t[2]) :
                                     /\ start <= e.spent_date /\ e.spent_date <= today
                                     /\ f[1] \in {"", e.main_category}
                                     /\ f[2] \in {"", e.sub_category}}
                /\ Len(rows) = Cardinality(Range(rows))
                /\ \A i, j \in 1..Len(rows) : i < j => NotLater(rows[j], rows[i]))
    /\ [][(/\ OnePlan(out') /\ IsDelete(out'.plan.actions[1])
            /\ ExecMode(out'.plan.actions[1]) = "filter")
           => PendingIds(user_states', out'.chat_id, out'.tg_user_id)
                \subseteq {e.id : e \in FilterMatches(expenses, out'.chat_id, out'.tg_user_id,
                                                      out'.plan.actions[1])}]_vars

\* -------------------------------------------------- claims on receipts
\* The add_expense action with the fields of a receipt and no date.
AsAction(parsed) ==
    [BlankAction EXCEPT !.action = "add_expense", !.amount = parsed.amount,
                        !.currency = parsed.currency,
                        !.main_category = parsed.main_category,
                        !.sub_category = parsed.sub_category]

\* C29: a receipt that is recognised as an expense does to the ledger,
\* the budgets and the overrides what the executor does for an
\* add_expense action with the receipt's amount, currency and categories
\* and no date, and gives the same result entry (id, rollover report,
\* remaining-budget figures); no plan is made for it.
C29_ReceiptLikeTextExpense ==
    [][(out'.event = "photo" /\ out'.branch = "recorded") =>
          /\ out'.plan = NoPlan
          /\ \E parsed \in PhotoReceipts :
                LET r == execute_plan(DB, out'.chat_id, out'.tg_user_id,
                                      Plan1(AsAction(parsed)), "asc")
                IN /\ parsed.type = "expense"
                   /\ ~r.raised
                   /\ DB' = r.db
                   /\ out'.results = r.results]_vars

\* A receipt has just been recorded: its step rolled the day over (the
\* limit of the day comes from what was spent by text the day before),
\* inserted the expense and reports the figures of the day.
C29_Witness ==
    /\ out.event = "photo" /\ out.branch = "recorded"
    /\ \E x \in out.results[1].rollover : x.yesterday_spent = 18000
    /\ \E e \in expenses : e.id = out.results[1].id /\ e.amount = out.results[1].amount
    /\ \E i \in out.results[1].budget_info :
          /\ i.daily.limit.k = "num" /\ i.monthly.limit.k = "num"
          /\ i.daily.spent = out.results[1].amount
\* ------------------------------------- claims on the conversation memory
\* The rows of convo_messages the chat and user have.
TurnsOf(chat_id, user_id) == {m \in convo_messages : Owns(m, chat_id, user_id)}

\* C30: the conversation memory is bounded.  The history loaded for a chat
\* and user holds at most HISTORY_LIMIT of their turns, as many as they
\* have up to that; no turn left out is as recent as a loaded one; the
\* loaded turns run from the oldest to the newest; every role is "user" or
\* "assistant"; and no stored summary is longer than MAX_SUMMARY_CHARS.
C30_MemoryBounded ==
    /\ \A t \in Tenants :
          LET own == TurnsOf(t[1], t[2])
              h == get_history(convo_messages, t[1], t[2], HISTORY_LIMIT)
          IN /\ Len(h) <= HISTORY_LIMIT
             /\ Len(h) = IF Cardinality(own) < HISTORY_LIMIT
                         THEN Cardinality(own) ELSE HISTORY_LIMIT
             /\ Range(h) \subseteq own
             /\ \A m \in own \ Range(h) : \A i \in 1..Len(h) :
                   m.created_at < h[i].created_at
             /\ \A i \in 1..Len(h), j \in 1..Len(h) :
                   i < j => h[i].created_at < h[j].created_at
             /\ \A i \in 1..Len(h) : h[i].role \in {"user", "assistant"}
    /\ \A m \in convo_memory : m.summary <= MAX_SUMMARY_CHARS

\* The first user has more turns than are loaded, two user turns in a row
\* among the loaded ones and a summary of MAX_SUMMARY_CHARS; the second
\* user has a turn that is later than the first user's oldest loaded one.
C30_Witness ==
    LET h == get_history(convo_messages, 1, 1, HISTORY_LIMIT)
    IN /\ Cardinality(TurnsOf(1, 1)) > HISTORY_LIMIT
       /\ Len(h) = HISTORY_LIMIT
       /\ \E i \in 1..(Len(h) - 1) : h[i].role = "user" /\ h[i + 1].role = "user"
       /\ \E m \in TurnsOf(1, 2) : m.created_at > h[1].created_at
       /\ get_summary(convo_memory, 1, 1) = MAX_SUMMARY_CHARS
       /\ out.branch = "executed"

\* ------------------------------------- claims on the pending confirmation
\* The event is a text message of the chat and user that is a yes or a no.
Answered(o, chat_id, user_id) ==
    /\ o.event = "text"
    /\ o.chat_id = chat_id /\ o.tg_user_id = user_id
    /\ text_low(o.text) \in YesWords \cup NoWords

\* C31: a PendingAction does not expire.  Whoever awaits a confirmation
\* still awaits it, with the same ids, after every step that is not a yes
\* or a no text of theirs: a tick of the clock, a photo of theirs, any
\* other text of theirs, any event of another user.
C31_PendingNeverExpires ==
    [][\A t \in Tenants :
          (Pending(user_states, t[1], t[2]) /\ ~Answered(out', t[1], t[2]))
            => get_state(user_states', t[1], t[2]) = get_state(user_states, t[1], t[2])]_vars

\* The first user awaits a confirmation and has just had a receipt
\* recorded, on a later day than the first.
C31_Witness ==
    /\ Pending(user_states, 1, 1)
    /\ out.event = "photo" /\ out.branch = "recorded"
    /\ out.chat_id = 1 /\ out.tg_user_id = 1
    /\ today > 1

\* C33: while a user awaits a confirmation, every text of theirs goes to
\* the confirmation branch, whether or not it names the bot or replies to
\* it: a yes or a no is acted upon and ends the wait, anything else is
\* answered with the re-prompt, and no plan comes with the event.
C33_ConfirmationBeforeGate ==
    [][\A t \in Tenants :
          (/\ Pending(user_states, t[1], t[2])
           /\ out'.event = "text" /\ out'.chat_id = t[1] /\ out'.tg_user_id = t[2])
            => /\ out'.plan = NoPlan
               /\ out'.branch \in {"confirm_yes", "confirm_no", "reprompt"}
               /\ out'.replies = 1
               /\ text_low(out'.text) \in YesWords
                     => out'.branch = "confirm_yes" /\ ~Pending(user_states', t[1], t[2])
               /\ text_low(out'.text) \in NoWords \ YesWords
                     => out'.branch = "confirm_no" /\ ~Pending(user_states', t[1], t[2])]_vars

\* A yes without the bot's name in it has just been acted upon: the rows
\* held are gone and the wait is over.
C33_Witness ==
    /\ out.event = "text" /\ out.branch = "confirm_yes"
    /\ ~extract_bot_mention(out.text)
    /\ out.n > 0
    /\ ~Pending(user_states, out.chat_id, out.tg_user_id)

\* The plan holds a delete_expense action whose mode, as the executor reads
\* it, is filter or last.
HoldsConfirmedDelete(plan) ==
    \E i \in 1..Len(plan.actions) :
        IsDelete(plan.actions[i]) /\ ExecMode(plan.actions[i]) \in {"filter", "last"}

\* C34: a turn whose plan holds a delete_expense of mode filter or last
\* executes no action of the plan: the expenses, the budgets and the
\* overrides are as before, whatever else the plan holds; and the yes or
\* no that follows adds no expense and writes no budget and no override.
C34_PreCheckRunsNothing ==
    [][/\ (out'.event = "text" /\ HoldsConfirmedDelete(out'.plan))
            => /\ expenses' = expenses
               /\ budgets' = budgets
               /\ daily_overrides' = daily_overrides
       /\ out'.branch \in {"confirm_yes", "confirm_no"}
            => /\ expenses' \subseteq expenses
               /\ budgets' = budgets
               /\ daily_overrides' = daily_overrides]_vars

\* C36: a yes removes only what the PendingAction captured when the
\* question was asked.  The question captures ids of rows the user then
\* has, as many as it announces when that is at most IdsCap and IdsCap of
\* them otherwise; a row recorded later gets an id no PendingAction
\* holds; and the yes removes the user's rows whose ids are held, all of
\* them that are still there and no other row.
C36_YesRemovesCapturedOnly ==
    [][/\ out'.branch \in {"ask_filter", "ask_last"} =>
            LET held == PendingIds(user_states', out'.chat_id, out'.tg_user_id)
                announced == IF out'.branch = "ask_last" THEN 1 ELSE out'.n
            IN /\ held \subseteq {e.id : e \in RowsOf(expenses, out'.chat_id, out'.tg_user_id)}
               /\ Cardinality(held) = IF announced <= IdsCap THEN announced ELSE IdsCap
               /\ expenses' = expenses
       /\ \A e \in expenses' \ expenses : \A t \in Tenants :
             e.id \notin PendingIds(user_states', t[1], t[2])
       /\ out'.branch = "confirm_yes" =>
            LET held == PendingIds(user_states, out'.chat_id, out'.tg_user_id)
            IN /\ expenses' \subseteq expenses
               /\ \A e \in expenses \ expenses' :
                     Owns(e, out'.chat_id, out'.tg_user_id) /\ e.id \in held
               /\ \A e \in RowsOf(expenses, out'.chat_id, out'.tg_user_id) :
                     e.id \in held => e \notin expenses']_vars

\* A yes of the first user has just removed one row, the first one
\* recorded; the second row, a coffee expense of the same user recorded
\* while the question was open, is still there.
C36_Witness ==
    /\ out.branch = "confirm_yes" /\ out.n = 1
    /\ out.chat_id = 1 /\ out.tg_user_id = 1
    /\ next_id = 3
    /\ \E e \in expenses : Owns(e, 1, 1) /\ e.id = 2 /\ e.main_category = "coffee"
    /\ \A e \in expenses : e.id # 1

\* ------------------------------------ claims on set_budget and the day
\* C35: after a set_budget that gives a daily limit, the key has an
\* override for today.  When it had none, the override is the rollover of
\* the new base limit with yesterday's limit and spending; when it had
\* one, that one stays, so the base daily limit changes and today's
\* effective limit does not.
C35_SetBudgetFixesToday ==
    [][(/\ OnePlan(out') /\ out'.branch = "executed"
        /\ out'.results[1].action = "set_budget"
        /\ out'.results[1].daily_limit.k = "num") =>
          LET res == out'.results[1]
              c == out'.chat_id
              u == out'.tg_user_id
              B == res.daily_limit.v
              before == OverridesOf(c, u, res.main_category, res.currency, today)
              after == {o \in daily_overrides' :
                          /\ Owns(o, c, u) /\ o.day = today
                          /\ o.main_category = res.main_category
                          /\ o.currency = res.currency}
          IN /\ Cardinality(after) = 1
             /\ before # {} => after = before
             /\ before = {} => \A o \in after : o.effective_limit = LawLimit(o, B)
             /\ \A o \in after :
                   /\ BaseDaily(budgets', o) = B
                   /\ {e.limit : e \in get_effective_daily_limit(DB', c, u, res.main_category,
                                                                   res.currency, today)}
                        = {o.effective_limit}]_vars

\* A second set_budget of the day has changed the base daily limit of a
\* key that had spending yesterday; today's override is still the one
\* computed from the base limit before.
C35_Witness ==
    /\ OnePlan(out) /\ out.branch = "executed"
    /\ out.results[1].action = "set_budget"
    /\ out.results[1].daily_limit.k = "num"
    /\ \E o \in OverridesOf(out.chat_id, out.tg_user_id, out.results[1].main_category,
                             out.results[1].currency, today) :
          /\ BaseDaily(budgets, o) = out.results[1].daily_limit.v
          /\ o.effective_limit # LawLimit(o, out.results[1].daily_limit.v)
          /\ SpentOn(o.chat_id, o.tg_user_id, o.main_category, o.currency, today - 1) > 0

\* C37: an expense recorded without a date of its own, by an add_expense
\* action or from a receipt, is stored under the day for which the
\* rollover ran and the figures are computed, the local current date, so
\* that the day's reported spending counts it.
C37_StoredDayIsRolloverDay ==
    [][(\/ Ran(out', "add_expense") /\ out'.plan.actions[1].spent_date.k = "null"
        \/ out'.event = "photo" /\ out'.branch = "recorded") =>
          LET r == out'.results[1]
          IN /\ r.day = today
             /\ \E e \in expenses' \ expenses :
                   /\ e.id = r.id
                   /\ e.spent_date = r.day
                   /\ sum_expenses(DB', out'.chat_id, out'.tg_user_id, r.day, r.day,
                                   r.main_category, r.currency)
                        = sum_expenses(DB, out'.chat_id, out'.tg_user_id, r.day, r.day,
                                       r.main_category, r.currency) + r.amount]_vars

\* ------------------------------------------ claims on handlers in flight
\* Two rows of daily_overrides for the same chat, user, category, currency
\* and day.
SameOverrideKey(o, p) ==
    /\ o.chat_id = p.chat_id /\ o.tg_user_id = p.tg_user_id
    /\ o.main_category = p.main_category /\ o.currency = p.currency
    /\ o.day = p.day

\* C32: with two text handlers of one user in flight at once, in whatever
\* order their stages run, a key has at most one override for a day, and
\* the override a handler wrote keeps its limit and its reason when the
\* other handler runs its plan.
C32_RaceKeepsFirstOverride ==
    /\ [](\A o \in daily_overrides, p \in daily_overrides : SameOverrideKey(o, p) => o = p)
    /\ [][\A o \in daily_overrides : o \in daily_overrides']_vars

\* Both handlers are in flight and have run their plans, the second one
\* last: its plan changed the base limit or recorded an expense of
\* yesterday before it recorded an expense of today, the rollover found
\* today's override written and left it, and that override is no longer
\* what the rollover would compute.
C32_Witness ==
    /\ in_flight[1].stage = "reply" /\ in_flight[2].stage = "reply"
    /\ out.branch = "ran" /\ out.n = 2
    /\ Len(out.results) = 2
    /\ out.results[2].action = "add_expense"
    /\ out.results[2].rollover = {}
    /\ \E o \in daily_overrides :
          /\ Owns(o, 1, 1) /\ o.main_category = "coffee" /\ o.day = today
          /\ o.effective_limit # LawLimit(o, BaseDaily(budgets, o))

====
